---------------------------- MODULE Spec2Model ----------------------------
(***************************************************************************)
(* Replicated tracker control plane and resumable chunk download engine    *)
(* of the P2P file sharing system.                                         *)
(*                                                                         *)
(* Tracker side: the in-memory maps users / groups / files of every        *)
(* tracker process, the RPC handlers, the gossip of sync_ messages, the    *)
(* persisted snapshot and the rejoin pull.                                 *)
(* Client side: the chunker, the upload command and the download loop      *)
(* over the local chunk directory.                                         *)
(***************************************************************************)
EXTENDS Integers, Sequences, FiniteSets, TLC

(***************************************************************************)
(* Bounds of the model and program constants.                              *)
(***************************************************************************)
\* largest number of tracker addresses in tracker_info.txt
MaxTrackers == 3
\* client commands in one behaviour of each specification
GroupOps == 4
FileOps == 3
RaceOps == 3
UserOps == 3
RejoinOps == 2
OutageOps == 2
DlRuns == 2
\* process stops, kills and starts in one behaviour
RaceLives == 2
RejoinLives == 1
OutageLives == 2
DlInterrupts == 2
\* SaveState goroutines of one tracker counted as pending at a time
MaxSaves == 2
\* applications of one command to one starting state
SyncOps == 2
PullOps == 1
PullLives == 3
PresenceOps == 3
PresenceLives == 2
\* client commands of the seeder hand-off scenario
SeederOps == 3
MemberOps == 3
SharedOps == 3
\* client commands and tracker kills of the failover scenario
FailoverOps == 2
FailoverLives == 2
\* chunk size policy value: 512 * 1024
ChunkSize == 524288

Trackers == 1..MaxTrackers
UserIds == {"alice", "bob"}
Passwords == {"p1", "p2"}
GroupIds == {"g1"}
FileNames == {"f1"}
Addrs == {"", ":7001"}

(***************************************************************************)
(* Generic helpers on Go maps (functions with a finite domain).            *)
(***************************************************************************)
EmptyMap == << >>
Put(f, k, v) == [x \in (DOMAIN f) \cup {k} |-> IF x = k THEN v ELSE f[x]]
Del(f, k) == [x \in (DOMAIN f) \ {k} |-> f[x]]

Min(a, b) == IF a < b THEN a ELSE b

RECURSIVE SumSizes(_)
SumSizes(cs) == IF cs = << >> THEN 0 ELSE Head(cs).Size + SumSizes(Tail(cs))

(***************************************************************************)
(* Decimal strings.  A string argument is a sequence of one-character      *)
(* strings, so that formatting (client) and scanning (tracker) are         *)
(* computed and not assumed inverse of each other.                         *)
(***************************************************************************)
DigitChars == <<"0", "1", "2", "3", "4", "5", "6", "7", "8", "9">>
DigitVal(c) == (CHOOSE i \in 1..10 : DigitChars[i] = c) - 1
IsDigit(c) == \E i \in 1..10 : DigitChars[i] = c

\* fmt.Sprintf("%d", n)
RECURSIVE SprintfNat(_)
SprintfNat(n) == IF n < 10 THEN <<DigitChars[n + 1]>>
                 ELSE SprintfNat(n \div 10) \o <<DigitChars[(n % 10) + 1]>>
Sprintf_d(n) == IF n < 0 THEN <<"-">> \o SprintfNat(0 - n) ELSE SprintfNat(n)

\* fmt.Sscanf(s, "%d", &size): optional sign, then the longest digit prefix;
\* with no digit the scan fails and size keeps its zero value.
RECURSIVE ScanDigits(_, _, _)
ScanDigits(s, acc, seen) ==
    IF s # << >> /\ IsDigit(Head(s))
    THEN ScanDigits(Tail(s), acc * 10 + DigitVal(Head(s)), TRUE)
    ELSE [val |-> acc, ok |-> seen]
Sscanf_d(s) ==
    LET neg == s # << >> /\ Head(s) = "-"
        pos == s # << >> /\ Head(s) = "+"
        body == IF neg \/ pos THEN Tail(s) ELSE s
        r == ScanDigits(body, 0, FALSE)
    IN  IF ~r.ok THEN 0 ELSE IF neg THEN 0 - r.val ELSE r.val

(***************************************************************************)
(* Client chunker (client/chunk.go).                                       *)
(***************************************************************************)
\* content hash of a byte range, abstracted to an injective tag of the bytes
Sha256(bytes) == <<"sha256", bytes>>

\* file.Read(buffer): the n bytes of chunk i of the file, as a tag of the range
ChunkBytes(path, i, n) == <<path, i, n>>

\* fault: a chunk count rounded down
ChunkFile_floor(path, fileSize) ==
    LET totalChunks == fileSize \div ChunkSize
        n(i) == Min(ChunkSize, fileSize - i * ChunkSize)
    IN  [err |-> FALSE,
         FileName |-> path,
         FileSize |-> fileSize,
         FileHash |-> Sha256(<<path, fileSize>>),
         TotalChunks |-> totalChunks,
         Chunks |-> [i \in 1..totalChunks |->
                        [Index |-> i - 1,
                         Hash |-> Sha256(ChunkBytes(path, i - 1, n(i - 1))),
                         Size |-> n(i - 1)]]]

\* ChunkFile: totalChunks = (fileSize + ChunkSize - 1) / ChunkSize, then one
\* Read of at most ChunkSize bytes per chunk.  A file is its size and a
\* content tag; chunk i covers bytes [i*ChunkSize, i*ChunkSize + n).
ChunkFile(path, fileSize) ==
    LET totalChunks == (fileSize + ChunkSize - 1) \div ChunkSize
        n(i) == Min(ChunkSize, fileSize - i * ChunkSize)
    IN  [err |-> FALSE,
         FileName |-> path,
         FileSize |-> fileSize,
         FileHash |-> Sha256(<<path, fileSize>>),
         TotalChunks |-> totalChunks,
         Chunks |-> [i \in 1..totalChunks |->
                        [Index |-> i - 1,
                         Hash |-> Sha256(ChunkBytes(path, i - 1, n(i - 1))),
                         Size |-> n(i - 1)]]]

\* json.Marshal(metadata.Chunks) / json.Unmarshal([]byte(chunksJSON), &chunks):
\* a JSON text is either well formed (it carries the chunk list) or not.
JsonMarshal(chunks) == [wellFormed |-> TRUE, val |-> chunks]
JsonUnmarshal(text) == IF text.wellFormed THEN [err |-> FALSE, val |-> text.val]
                       ELSE [err |-> TRUE, val |-> << >>]
MalformedJson == [wellFormed |-> FALSE, val |-> << >>]

\* client main, case "upload_file": the argument list sent to the tracker,
\* or no request at all when ChunkFile returns an error.
ClientUploadArgs(path, fileSize, groupID, userID) ==
    LET metadata == ChunkFile(path, fileSize)
    IN  IF metadata.err THEN << >>
        ELSE <<metadata.FileName, groupID, userID, Sprintf_d(metadata.FileSize),
               metadata.FileHash, JsonMarshal(metadata.Chunks)>>


(***************************************************************************)
(* Tracker handlers.  A handler is a function of the tracker's memory      *)
(* M = [users, groups, files] and the argument list; it yields the new     *)
(* memory, the response, the broadcasts it starts (go broadcastToTrackers) *)
(* and the number of persistence writes it schedules (go SaveState()).     *)
(* panic marks a nil-pointer dereference, which ends the process.          *)
(***************************************************************************)
EmptyMem == [users |-> EmptyMap, groups |-> EmptyMap, files |-> EmptyMap]

Result(M, status, data, bcast, saves) ==
    [mem |-> M, status |-> status, data |-> data, bcast |-> bcast,
     saves |-> saves, panic |-> FALSE]
Panic(M) ==
    [mem |-> M, status |-> "none", data |-> "panic", bcast |-> {},
     saves |-> 0, panic |-> TRUE]

\* fileKey := groupID + ":" + fileName
FileKey(groupID, fileName) == <<groupID, fileName>>

\* createUser that replaces the record of an existing user
createUser_overwrite(M, args) ==
    Result([M EXCEPT !.users = Put(@, args[1],
                [Password |-> args[2], LoggedIn |-> FALSE, Addr |-> ""])],
           "ok", "user created",
           {<<"sync_create_user", <<args[1], args[2]>>>>}, 1)

createUser(M, args) ==
    LET user == args[1]
        pass == args[2]
    IN  IF user \in DOMAIN M.users
        THEN Result(M, "error", "user exists", {}, 0)
        ELSE Result([M EXCEPT !.users = Put(@, user,
                        [Password |-> pass, LoggedIn |-> FALSE, Addr |-> ""])],
                    "ok", "user created",
                    {<<"sync_create_user", <<user, pass>>>>}, 1)

login(M, args) ==
    LET user == args[1]
        pass == args[2]
        addr == args[3]
    IN  IF user \notin DOMAIN M.users \/ M.users[user].Password # pass
        THEN Result(M, "error", "invalid credentials", {}, 0)
        ELSE Result([M EXCEPT !.users[user].LoggedIn = TRUE,
                              !.users[user].Addr = addr],
                    "ok", "logged in", {}, 1)

updateAddress(M, args) ==
    LET user == args[1]
        addr == args[2]
    IN  IF user \notin DOMAIN M.users
        THEN Result(M, "error", "user not found", {}, 0)
        ELSE IF ~M.users[user].LoggedIn
        THEN Result(M, "error", "user not logged in", {}, 0)
        ELSE Result([M EXCEPT !.users[user].Addr = addr],
                    "ok", "address updated", {}, 1)

\* a group record created without its owner among the members
NewGroup_noMembers(owner) == [Owner |-> owner, Members |-> {}, Pending |-> {}]

NewGroup(owner) == [Owner |-> owner, Members |-> {owner}, Pending |-> {}]

createGroup(M, args) ==
    LET groupID == args[1]
        user == args[2]
    IN  IF groupID \in DOMAIN M.groups
        THEN Result(M, "error", "group exists", {}, 0)
        ELSE Result([M EXCEPT !.groups = Put(@, groupID, NewGroup(user))],
                    "ok", "group created",
                    {<<"sync_create_group", <<groupID, user>>>>}, 1)

joinGroup(M, args) ==
    LET groupID == args[1]
        userID == args[2]
    IN  IF groupID \notin DOMAIN M.groups
        THEN Result(M, "error", "group not found", {}, 0)
        ELSE Result([M EXCEPT !.groups[groupID].Pending = @ \cup {userID}],
                    "ok", "request sent to the group",
                    {<<"sync_join_group", <<groupID, userID>>>>}, 0)

\* acceptRequest without the comparison of g.Owner with the caller
acceptRequest_anyone(M, args) ==
    LET groupID == args[1]
        userID == args[3]
    IN  IF groupID \notin DOMAIN M.groups
        THEN Panic(M)
        ELSE Result([M EXCEPT !.groups[groupID].Pending = @ \ {userID},
                              !.groups[groupID].Members = @ \cup {userID}],
                    "ok", "request accepted successfully",
                    {<<"sync_accept_request", <<groupID, userID>>>>}, 0)

\* g := groups[groupID] is nil for an unknown group and g.Owner dereferences it
acceptRequest(M, args) ==
    LET groupID == args[1]
        owner == args[2]
        userID == args[3]
    IN  IF groupID \notin DOMAIN M.groups
        THEN Panic(M)
        ELSE IF M.groups[groupID].Owner # owner
        THEN Result(M, "error", "not owner", {}, 0)
        ELSE Result([M EXCEPT !.groups[groupID].Pending = @ \ {userID},
                              !.groups[groupID].Members = @ \cup {userID}],
                    "ok", "request accepted successfully",
                    {<<"sync_accept_request", <<groupID, userID>>>>}, 0)

uploadFile(M, args) ==
    LET fileName == args[1]
        groupID == args[2]
        userID == args[3]
        fileSize == args[4]
        hasManifest == Len(args) >= 6
        parsed == IF hasManifest THEN JsonUnmarshal(args[6])
                  ELSE [err |-> FALSE, val |-> << >>]
        fileHash == IF hasManifest THEN args[5] ELSE ""
        chunks == parsed.val
        fileKey == FileKey(groupID, fileName)
    IN  IF parsed.err
        THEN Result(M, "error", "invalid chunk data", {}, 0)
        ELSE IF groupID \notin DOMAIN M.groups
        THEN Result(M, "error", "group not found", {}, 0)
        ELSE IF userID \notin M.groups[groupID].Members
        THEN Result(M, "error", "not a member", {}, 0)
        ELSE IF fileKey \in DOMAIN M.files
        THEN Result(M, "error", "file already exists in group", {}, 0)
        ELSE Result([M EXCEPT !.files = Put(@, fileKey,
                        [FileName |-> fileName,
                         GroupID |-> groupID,
                         Uploader |-> userID,
                         FileSize |-> Sscanf_d(fileSize),
                         FileHash |-> fileHash,
                         ChunkSize |-> ChunkSize,
                         TotalChunks |-> Len(chunks),
                         Chunks |-> chunks,
                         Owners |-> {userID}])],
                    "ok", "file uploaded successfully",
                    IF hasManifest THEN {<<"sync_upload_file", args>>} ELSE {},
                    1)

\* stopSharing that keeps the record of a file whose last owner left
stopSharing_keepRecord(M, args) ==
    LET fileKey == FileKey(args[1], args[2])
    IN  IF fileKey \notin DOMAIN M.files
        THEN Result(M, "error", "file not found", {}, 0)
        ELSE Result([M EXCEPT !.files[fileKey].Owners = @ \ {args[3]}],
                    "ok", "stopped sharing",
                    {<<"sync_stop_sharing", args>>}, 0)

stopSharing(M, args) ==
    LET groupID == args[1]
        fileName == args[2]
        userID == args[3]
        fileKey == FileKey(groupID, fileName)
    IN  IF fileKey \notin DOMAIN M.files
        THEN Result(M, "error", "file not found", {}, 0)
        ELSE IF M.files[fileKey].Owners \ {userID} = {}
        THEN Result([M EXCEPT !.files = Del(@, fileKey)],
                    "ok", "file removed from tracker (no owners)",
                    {<<"sync_stop_sharing", args>>}, 0)
        ELSE Result([M EXCEPT !.files[fileKey].Owners = @ \ {userID}],
                    "ok", "stopped sharing",
                    {<<"sync_stop_sharing", args>>}, 0)

leaveGroup(M, args) ==
    IF Len(args) < 2
    THEN Result(M, "error", "leave_group: need groupID, userID", {}, 0)
    ELSE
    LET groupID == args[1]
        userID == args[2]
    IN  IF groupID \notin DOMAIN M.groups
        THEN Result(M, "error", "group not found", {}, 0)
        ELSE IF M.groups[groupID].Owner = userID
        THEN Result(M, "error", "owner cannot leave the group", {}, 0)
        ELSE IF userID \notin M.groups[groupID].Members
        THEN Result(M, "error", "not a member", {}, 0)
        ELSE Result([M EXCEPT !.groups[groupID].Members = @ \ {userID}],
                    "ok", "left group",
                    {<<"sync_leave_group", args>>}, 1)

addSeeder(M, args) ==
    IF Len(args) < 3
    THEN Result(M, "error", "add_seeder: need groupID, fileName, userID", {}, 0)
    ELSE
    LET groupID == args[1]
        fileName == args[2]
        userID == args[3]
        fileKey == FileKey(groupID, fileName)
    IN  IF fileKey \notin DOMAIN M.files
        THEN Result(M, "error", "file not found", {}, 0)
        ELSE IF groupID \notin DOMAIN M.groups
        THEN Result(M, "error", "group not found", {}, 0)
        ELSE Result([M EXCEPT !.files[fileKey].Owners = @ \cup {userID}],
                    "ok", "registered as seeder",
                    {<<"sync_add_seeder", args>>}, 1)

\* listFiles: args[1] (the requesting user) is optional, and membership is
\* enforced only when it is supplied and not empty
listFiles(M, args) ==
    LET groupID == args[1]
        requestingUser == IF Len(args) >= 2 THEN args[2] ELSE ""
        fileList == {[file_name |-> M.files[k].FileName,
                      file_size |-> M.files[k].FileSize,
                      uploader |-> M.files[k].Uploader] :
                        k \in {x \in DOMAIN M.files : M.files[x].GroupID = groupID}}
    IN  IF groupID \notin DOMAIN M.groups
        THEN Result(M, "error", "group not found", {}, 0)
        ELSE IF requestingUser # "" /\ requestingUser \notin M.groups[groupID].Members
        THEN Result(M, "error", "not a member of this group", {}, 0)
        ELSE IF fileList = {}
        THEN Result(M, "ok", "no files in group", {}, 0)
        ELSE Result(M, "ok", fileList, {}, 0)

\* getPeerAddresses without the test of user.LoggedIn
getPeerAddresses_all(M, owners) ==
    {M.users[u].Addr : u \in owners \cap DOMAIN M.users}

\* getPeerAddresses: the addresses of the logged-in users among the owners
getPeerAddresses(M, owners) ==
    {M.users[u].Addr : u \in {x \in owners \cap DOMAIN M.users : M.users[x].LoggedIn}}

\* getFileInfo that reports the chunk size as the file size
getFileInfo_chunkSize(M, args) ==
    LET fileKey == FileKey(args[1], args[2])
    IN  IF fileKey \notin DOMAIN M.files
        THEN Result(M, "error", "file not found", {}, 0)
        ELSE Result(M, "ok",
                    [file_name |-> M.files[fileKey].FileName,
                     file_hash |-> M.files[fileKey].FileHash,
                     file_size |-> M.files[fileKey].ChunkSize,
                     chunk_size |-> M.files[fileKey].ChunkSize,
                     total_chunks |-> M.files[fileKey].TotalChunks,
                     chunks |-> M.files[fileKey].Chunks,
                     peers |-> getPeerAddresses(M, M.files[fileKey].Owners)],
                    {}, 0)

\* getFileInfo: the manifest and the peer list; a third argument is ignored
getFileInfo(M, args) ==
    LET fileKey == FileKey(args[1], args[2])
    IN  IF fileKey \notin DOMAIN M.files
        THEN Result(M, "error", "file not found", {}, 0)
        ELSE Result(M, "ok",
                    [file_name |-> M.files[fileKey].FileName,
                     file_hash |-> M.files[fileKey].FileHash,
                     file_size |-> M.files[fileKey].FileSize,
                     chunk_size |-> M.files[fileKey].ChunkSize,
                     total_chunks |-> M.files[fileKey].TotalChunks,
                     chunks |-> M.files[fileKey].Chunks,
                     peers |-> getPeerAddresses(M, M.files[fileKey].Owners)],
                    {}, 0)

(***************************************************************************)
(* applySync (tracker/sync.go): an inbound sync_ command applied to the    *)
(* local memory.  sync_upload_file and sync_stop_sharing call the client   *)
(* handlers uploadFile and stopSharing, whose broadcasts and persistence   *)
(* writes are therefore started as well.                                   *)
(***************************************************************************)
Synced(M, bcast, saves) == Result(M, "ok", "synced", bcast, saves)

\* fault: sync_create_user acknowledged without inserting the user
syncCreateUser_ackOnly(M, args) == Synced(M, {}, 0)

\* fault: sync_create_user that replaces the record of a known user
syncCreateUser_overwrite(M, args) ==
    IF Len(args) < 2
    THEN Result(M, "error", "sync_create_user: need user, pass", {}, 0)
    ELSE Synced([M EXCEPT !.users = Put(@, args[1],
                    [Password |-> args[2], LoggedIn |-> FALSE, Addr |-> ""])],
                {}, 0)

syncCreateUser(M, args) ==
    IF Len(args) < 2
    THEN Result(M, "error", "sync_create_user: need user, pass", {}, 0)
    ELSE IF args[1] \notin DOMAIN M.users
    THEN Synced([M EXCEPT !.users = Put(@, args[1],
                    [Password |-> args[2], LoggedIn |-> FALSE, Addr |-> ""])],
                {}, 0)
    ELSE Synced(M, {}, 0)

syncCreateGroup(M, args) ==
    IF Len(args) < 2
    THEN Result(M, "error", "sync_create_group: need groupID, owner", {}, 0)
    ELSE IF args[1] \notin DOMAIN M.groups
    THEN Synced([M EXCEPT !.groups = Put(@, args[1], NewGroup(args[2]))], {}, 0)
    ELSE Synced(M, {}, 0)

syncJoinGroup(M, args) ==
    IF Len(args) < 2
    THEN Result(M, "error", "sync_join_group: need groupID, userID", {}, 0)
    ELSE IF args[1] \in DOMAIN M.groups
    THEN Synced([M EXCEPT !.groups[args[1]].Pending = @ \cup {args[2]}], {}, 0)
    ELSE Synced(M, {}, 0)

syncAcceptRequest(M, args) ==
    IF Len(args) < 2
    THEN Result(M, "error", "sync_accept_request: need groupID, userID", {}, 0)
    ELSE IF args[1] \in DOMAIN M.groups
    THEN Synced([M EXCEPT !.groups[args[1]].Pending = @ \ {args[2]},
                          !.groups[args[1]].Members = @ \cup {args[2]}], {}, 0)
    ELSE Synced(M, {}, 0)

\* calls uploadFile: its broadcast and its SaveState are started as well
syncUploadFile(M, args) ==
    IF Len(args) < 6
    THEN Result(M, "error", "sync_upload_file: insufficient args", {}, 0)
    ELSE LET resp == uploadFile(M, args)
         IN  Synced(resp.mem, resp.bcast, resp.saves)

\* calls stopSharing: its broadcast is started as well
syncStopSharing(M, args) ==
    IF Len(args) < 3
    THEN Result(M, "error", "sync_stop_sharing: need groupID, fileName, userID", {}, 0)
    ELSE LET resp == stopSharing(M, args)
         IN  Synced(resp.mem, resp.bcast, resp.saves)

syncLeaveGroup(M, args) ==
    IF Len(args) < 2
    THEN Result(M, "error", "sync_leave_group: need groupID, userID", {}, 0)
    ELSE IF args[1] \in DOMAIN M.groups
    THEN Synced([M EXCEPT !.groups[args[1]].Members = @ \ {args[2]}], {}, 0)
    ELSE Synced(M, {}, 0)

\* fault: sync_add_seeder that removes the seeder it finds
syncAddSeeder_toggle(M, args) ==
    IF Len(args) >= 3 /\ FileKey(args[1], args[2]) \in DOMAIN M.files
    THEN Synced([M EXCEPT !.files[FileKey(args[1], args[2])].Owners =
                    IF args[3] \in @ THEN @ \ {args[3]} ELSE @ \cup {args[3]}],
                {}, 0)
    ELSE Synced(M, {}, 0)

syncAddSeeder(M, args) ==
    IF Len(args) < 3
    THEN Result(M, "error", "sync_add_seeder: need groupID, fileName, userID", {}, 0)
    ELSE IF FileKey(args[1], args[2]) \in DOMAIN M.files
    THEN Synced([M EXCEPT !.files[FileKey(args[1], args[2])].Owners =
                                @ \cup {args[3]}], {}, 0)
    ELSE Synced(M, {}, 0)

applySync(M, cmd, args) ==
    CASE cmd = "sync_create_user" -> syncCreateUser(M, args)
      [] cmd = "sync_create_group" -> syncCreateGroup(M, args)
      [] cmd = "sync_join_group" -> syncJoinGroup(M, args)
      [] cmd = "sync_accept_request" -> syncAcceptRequest(M, args)
      [] cmd = "sync_upload_file" -> syncUploadFile(M, args)
      [] cmd = "sync_stop_sharing" -> syncStopSharing(M, args)
      [] cmd = "sync_leave_group" -> syncLeaveGroup(M, args)
      [] cmd = "sync_add_seeder" -> syncAddSeeder(M, args)
      [] OTHER -> Result(M, "error", "unknown sync command", {}, 0)

\* mergeState: insert-if-absent of every record of the snapshot
MergeMap(local, remote) ==
    [k \in (DOMAIN local) \cup (DOMAIN remote) |->
        IF k \in DOMAIN local THEN local[k] ELSE remote[k]]
\* fault: a merge that forgets the groups of the snapshot
mergeState_usersAndFilesOnly(M, snap) ==
    [users |-> MergeMap(M.users, snap.users),
     groups |-> M.groups,
     files |-> MergeMap(M.files, snap.files)]

\* fault: a merge that lets the snapshot overwrite the local records
mergeState_overwrite(M, snap) ==
    [users |-> MergeMap(snap.users, M.users),
     groups |-> MergeMap(snap.groups, M.groups),
     files |-> MergeMap(snap.files, M.files)]

\* fault: a merge that takes the snapshot's group where both hold the key
mergeState_overwriteGroups(M, snap) ==
    [users |-> MergeMap(M.users, snap.users),
     groups |-> MergeMap(snap.groups, M.groups),
     files |-> MergeMap(M.files, snap.files)]

mergeState(M, snap) ==
    [users |-> MergeMap(M.users, snap.users),
     groups |-> MergeMap(M.groups, snap.groups),
     files |-> MergeMap(M.files, snap.files)]

(***************************************************************************)
(* Dispatcher.  handleConnCmds are the commands the switch of handleConn   *)
(* routes.  It has no case for leave_group, add_seeder, sync_leave_group   *)
(* or sync_add_seeder: these are answered by the default case, and the     *)
(* handlers leaveGroup and addSeeder and the two applySync cases are       *)
(* called by no code of the tracker.                                       *)
(***************************************************************************)
handleConnCmds ==
    {"create_user", "login", "update_address", "create_group", "list_requests",
     "accept_requests", "join_group", "upload_file", "list_files",
     "get_file_info", "list_groups", "stop_sharing",
     "sync_create_user", "sync_create_group", "sync_join_group",
     "sync_accept_request", "sync_upload_file", "sync_stop_sharing",
     "sync_pull"}
SyncCmds ==
    {"sync_create_user", "sync_create_group", "sync_join_group",
     "sync_accept_request", "sync_upload_file", "sync_stop_sharing",
     "sync_leave_group", "sync_add_seeder"}

handleConn(M, cmd, args) ==
    IF cmd \notin handleConnCmds
    THEN Result(M, "error", "unkown command", {}, 0)
    ELSE CASE cmd = "create_user" -> createUser(M, args)
           [] cmd = "login" -> login(M, args)
           [] cmd = "update_address" -> updateAddress(M, args)
           [] cmd = "create_group" -> createGroup(M, args)
           [] cmd = "accept_requests" -> acceptRequest(M, args)
           [] cmd = "join_group" -> joinGroup(M, args)
           [] cmd = "upload_file" -> uploadFile(M, args)
           [] cmd = "stop_sharing" -> stopSharing(M, args)
           [] cmd = "list_files" -> listFiles(M, args)
           [] cmd = "get_file_info" -> getFileInfo(M, args)
           [] cmd \in SyncCmds -> applySync(M, cmd, args)
           [] OTHER -> Result(M, "ok", "read", {}, 0)

(***************************************************************************)
(* State of the cluster.                                                   *)
(***************************************************************************)
VARIABLES
    conf,         \* number of addresses in tracker_info.txt (the cluster size)
    users,        \* users[t]: map user_id -> User of tracker t
    groups,       \* groups[t]: map group_id -> Group
    files,        \* files[t]: map fileKey -> File
    up,           \* up[t]: the tracker process is running
    disk,         \* disk[t]: tracker_state.json of tracker t
    savePending,  \* savePending[t]: SaveState goroutines started and not yet run
    pull,         \* pull[t]: position of the pullStateFromPeers goroutine
    net,          \* sync messages handed to broadcastToTrackers, not yet received
    last,         \* the request handled last and its response
    missed,       \* missed[t]: client writes acknowledged elsewhere while t was down
    opsLeft,      \* client commands still to be issued
    livesLeft,    \* process stops, kills and starts still to happen
    dl,           \* the client's DownloadFile run
    chunkDir,     \* <chunks_root>/<file_hash>/: chunk index -> content of chunk_i.dat
    dest          \* the destination file and metadata.json of the download

trackerVars == <<conf, users, groups, files, up, disk, savePending, pull, net,
                 last, missed>>
clientVars == <<dl, chunkDir, dest>>
vars == <<trackerVars, opsLeft, livesLeft, clientVars>>

Mem(t) == [users |-> users[t], groups |-> groups[t], files |-> files[t]]

\* peerAddrs: every configured address but the tracker's own, in file order
RECURSIVE SeqWithout(_, _)
SeqWithout(n, t) ==
    IF n = 0 THEN << >>
    ELSE IF n = t THEN SeqWithout(n - 1, t)
    ELSE Append(SeqWithout(n - 1, t), n)
peerAddrs(t) == SeqWithout(conf, t)

NoFile == [exists |-> FALSE, state |-> EmptyMem]
PullIdle == [stage |-> "idle", idx |-> 0, peer |-> 0, cap |-> EmptyMap]
PullDue(i) == [stage |-> "due", idx |-> i, peer |-> 0, cap |-> EmptyMap]
NoRequest == [kind |-> "none", t |-> 0, cmd |-> "", args |-> << >>,
              status |-> "", data |-> "", sent |-> 0]

\* broadcastToTrackers: one message per peer address
broadcastToTrackers(t, bcast) ==
    {[to |-> peerAddrs(t)[i], cmd |-> b[1], args |-> b[2]] :
        i \in 1..Len(peerAddrs(t)), b \in bcast}

\* The *File objects a sync_pull reply still being encoded refers to: a
\* handler that changes a file in place changes what the encoder will read;
\* a record removed from the map stays reachable from the reply, with the
\* owners set the removal left it with.
CapAfter(cap, oldFiles, newFiles) ==
    [k \in DOMAIN cap |->
        IF ~cap[k].live THEN cap[k]
        ELSE IF k \in DOMAIN newFiles THEN [rec |-> newFiles[k], live |-> TRUE]
        ELSE [rec |-> [oldFiles[k] EXCEPT !.Owners = {}], live |-> FALSE]]

PullsAfter(t, newFiles) ==
    [r \in Trackers |->
        IF pull[r].stage = "wait" /\ pull[r].peer = t
        THEN [pull[r] EXCEPT !.cap = CapAfter(@, files[t], newFiles)]
        ELSE pull[r]]

\* the requesters waiting for a reply of tracker t lose their connection
\* when t stops and go on with the next peer address
PullsAfterDeath(t) ==
    [r \in Trackers |->
        IF r = t THEN PullIdle
        ELSE IF pull[r].stage = "wait" /\ pull[r].peer = t
        THEN PullDue(pull[r].idx + 1)
        ELSE pull[r]]

\* bookkeeping for the rejoin properties: an acknowledged client write is
\* missed by every configured tracker that is down when it is handled
MissedAfter(t, kind, cmd, args, r) ==
    [x \in Trackers |->
        IF kind = "rpc" /\ r.status = "ok" /\ r.mem # Mem(t)
           /\ x # t /\ x <= conf /\ ~up[x]
        THEN missed[x] \cup {<<cmd, args>>}
        ELSE missed[x]]

\* the effect of one handled request on tracker t
Handled(t, kind, cmd, args, r, netRest) ==
    /\ last' = [kind |-> kind, t |-> t, cmd |-> cmd, args |-> args,
                status |-> r.status, data |-> r.data,
                sent |-> Cardinality(broadcastToTrackers(t, r.bcast))]
    /\ missed' = MissedAfter(t, kind, cmd, args, r)
    /\ IF r.panic
       THEN /\ users' = [users EXCEPT ![t] = EmptyMap]
            /\ groups' = [groups EXCEPT ![t] = EmptyMap]
            /\ files' = [files EXCEPT ![t] = EmptyMap]
            /\ up' = [up EXCEPT ![t] = FALSE]
            /\ savePending' = [savePending EXCEPT ![t] = 0]
            /\ pull' = PullsAfterDeath(t)
            /\ net' = netRest
            /\ UNCHANGED disk
       ELSE /\ users' = [users EXCEPT ![t] = r.mem.users]
            /\ groups' = [groups EXCEPT ![t] = r.mem.groups]
            /\ files' = [files EXCEPT ![t] = r.mem.files]
            /\ savePending' = [savePending EXCEPT ![t] = Min(@ + r.saves, MaxSaves)]
            /\ pull' = PullsAfter(t, r.mem.files)
            /\ net' = netRest \cup broadcastToTrackers(t, r.bcast)
            /\ UNCHANGED <<up, disk>>

\* this step is tracker t handling the client request cmd(args)
IsRPC(t, cmd, args) ==
    /\ opsLeft' = opsLeft - 1
    /\ last'.kind = "rpc"
    /\ last'.t = t
    /\ last'.cmd = cmd
    /\ last'.args = args

\* a client request received by tracker t
ClientRPC(t, cmd, args) ==
    /\ t <= conf
    /\ up[t]
    /\ opsLeft > 0
    /\ opsLeft' = opsLeft - 1
    /\ Handled(t, "rpc", cmd, args, handleConn(Mem(t), cmd, args), net)
    /\ UNCHANGED <<conf, livesLeft, clientVars>>

CreateUser(t, u, p) ==
    /\ up[t]
    /\ ClientRPC(t, "create_user", <<u, p>>)
Login(t, u, p, a) ==
    /\ up[t]
    /\ ClientRPC(t, "login", <<u, p, a>>)
UpdateAddress(t, u, a) ==
    /\ up[t]
    /\ ClientRPC(t, "update_address", <<u, a>>)
CreateGroup(t, g, u) ==
    /\ up[t]
    /\ ClientRPC(t, "create_group", <<g, u>>)
JoinGroup(t, g, u) ==
    /\ up[t]
    /\ ClientRPC(t, "join_group", <<g, u>>)
AcceptRequest(t, g, o, u) ==
    /\ up[t]
    /\ ClientRPC(t, "accept_requests", <<g, o, u>>)
LeaveGroup(t, g, u) ==
    /\ up[t]
    /\ ClientRPC(t, "leave_group", <<g, u>>)
StopSharing(t, g, f, u) ==
    /\ up[t]
    /\ ClientRPC(t, "stop_sharing", <<g, f, u>>)
AddSeeder(t, g, f, u) ==
    /\ up[t]
    /\ ClientRPC(t, "add_seeder", <<g, f, u>>)

\* upload_file as the client sends it: the file is chunked first
FileSizes == {0, 5, ChunkSize, ChunkSize + 1, 2 * ChunkSize}
UploadFile(t, f, size, g, u) ==
    /\ ClientUploadArgs(f, size, g, u) # << >>
    /\ ClientRPC(t, "upload_file", ClientUploadArgs(f, size, g, u))

\* upload_file argument lists a tracker can receive from any sender: the
\* four-argument form, a manifest that is not JSON, a manifest whose sizes
\* do not add up to the size argument, a size that is no number
RawUploadArgs(f, g, u) ==
    {<<f, g, u, Sprintf_d(5)>>,
     <<f, g, u, Sprintf_d(5), Sha256(<<f, 5>>), MalformedJson>>,
     <<f, g, u, Sprintf_d(7), Sha256(<<f, 5>>), JsonMarshal(ChunkFile(f, 5).Chunks)>>,
     <<f, g, u, <<"x">>, Sha256(<<f, 5>>), JsonMarshal(ChunkFile(f, 5).Chunks)>>}
UploadFileRaw(t, args) ==
    /\ up[t]
    /\ ClientRPC(t, "upload_file", args)

\* a sync message received by its destination t
DeliverSync(t) ==
    /\ up[t]
    /\ \E m \in net :
        /\ m.to = t
        /\ Handled(t, "sync", m.cmd, m.args,
                   handleConn(Mem(t), m.cmd, m.args), net \ {m})
    /\ UNCHANGED <<conf, opsLeft, livesLeft, clientVars>>

\* net.DialTimeout fails: peer t is down, the message is skipped silently
DialFail(t) ==
    /\ ~up[t]
    /\ \E m \in net :
        /\ m.to = t
        /\ net' = net \ {m}
    /\ UNCHANGED <<conf, users, groups, files, up, disk, savePending, pull,
                   last, missed, opsLeft, livesLeft, clientVars>>

(***************************************************************************)
(* Persistence and process lifecycle.                                      *)
(***************************************************************************)
\* SaveState: the three maps written under the lock
SaveState(t) ==
    /\ up[t]
    /\ savePending[t] > 0
    /\ savePending' = [savePending EXCEPT ![t] = @ - 1]
    /\ disk' = [disk EXCEPT ![t] = [exists |-> TRUE, state |-> Mem(t)]]
    /\ UNCHANGED <<conf, users, groups, files, up, pull, net, last, missed,
                   opsLeft, livesLeft, clientVars>>

\* LoadState: the maps of the file, or the fresh maps when there is no file
LoadState(d) == IF d.exists THEN d.state ELSE EmptyMem

\* a shutdown that stops the process without the call of SaveState
Shutdown_noSave(t) ==
    /\ up[t]
    /\ livesLeft > 0
    /\ livesLeft' = livesLeft - 1
    /\ up' = [up EXCEPT ![t] = FALSE]
    /\ users' = [users EXCEPT ![t] = EmptyMap]
    /\ groups' = [groups EXCEPT ![t] = EmptyMap]
    /\ files' = [files EXCEPT ![t] = EmptyMap]
    /\ savePending' = [savePending EXCEPT ![t] = 0]
    /\ pull' = PullsAfterDeath(t)
    /\ last' = [NoRequest EXCEPT !.kind = "shutdown", !.t = t]
    /\ UNCHANGED <<conf, disk, net, missed, opsLeft, clientVars>>

\* SIGINT / SIGTERM: main saves the state and returns
Shutdown(t) ==
    /\ up[t]
    /\ livesLeft > 0
    /\ livesLeft' = livesLeft - 1
    /\ disk' = [disk EXCEPT ![t] = [exists |-> TRUE, state |-> Mem(t)]]
    /\ up' = [up EXCEPT ![t] = FALSE]
    /\ users' = [users EXCEPT ![t] = EmptyMap]
    /\ groups' = [groups EXCEPT ![t] = EmptyMap]
    /\ files' = [files EXCEPT ![t] = EmptyMap]
    /\ savePending' = [savePending EXCEPT ![t] = 0]
    /\ pull' = PullsAfterDeath(t)
    /\ last' = [NoRequest EXCEPT !.kind = "shutdown", !.t = t]
    /\ UNCHANGED <<conf, net, missed, opsLeft, clientVars>>

\* the process is killed: nothing is saved
Kill(t) ==
    /\ up[t]
    /\ livesLeft > 0
    /\ livesLeft' = livesLeft - 1
    /\ up' = [up EXCEPT ![t] = FALSE]
    /\ users' = [users EXCEPT ![t] = EmptyMap]
    /\ groups' = [groups EXCEPT ![t] = EmptyMap]
    /\ files' = [files EXCEPT ![t] = EmptyMap]
    /\ savePending' = [savePending EXCEPT ![t] = 0]
    /\ pull' = PullsAfterDeath(t)
    /\ last' = [NoRequest EXCEPT !.kind = "kill", !.t = t]
    /\ UNCHANGED <<conf, disk, net, missed, opsLeft, clientVars>>

\* main: LoadState, peerAddrs, go pullStateFromPeers(), accept loop
Start(t) ==
    /\ t <= conf
    /\ ~up[t]
    /\ livesLeft > 0
    /\ livesLeft' = livesLeft - 1
    /\ up' = [up EXCEPT ![t] = TRUE]
    /\ users' = [users EXCEPT ![t] = LoadState(disk[t]).users]
    /\ groups' = [groups EXCEPT ![t] = LoadState(disk[t]).groups]
    /\ files' = [files EXCEPT ![t] = LoadState(disk[t]).files]
    /\ pull' = [pull EXCEPT ![t] = PullDue(1)]
    /\ last' = [NoRequest EXCEPT !.kind = "start", !.t = t]
    /\ UNCHANGED <<conf, disk, savePending, net, missed, opsLeft, clientVars>>

(***************************************************************************)
(* pullStateFromPeers.  The peer builds the snapshot value under the read  *)
(* lock (handleConn, case sync_pull) and encodes it in common.Send after   *)
(* the lock is released: PullDial is the request reaching the peer and the *)
(* encoder ranging over the files map, PullMerge is the encoder reading    *)
(* the records, the reply and mergeState on the requester.                 *)
(***************************************************************************)
PullDial(t) ==
    /\ up[t]
    /\ pull[t].stage = "due"
    /\ LET i == pull[t].idx
       IN  IF i > Len(peerAddrs(t))
           THEN pull' = [pull EXCEPT ![t] = PullIdle]
           ELSE IF ~up[peerAddrs(t)[i]]
           THEN pull' = [pull EXCEPT ![t] = PullDue(i + 1)]
           ELSE pull' = [pull EXCEPT ![t] =
                    [stage |-> "wait", idx |-> i, peer |-> peerAddrs(t)[i],
                     cap |-> [k \in DOMAIN files[peerAddrs(t)[i]] |->
                                [rec |-> files[peerAddrs(t)[i]][k], live |-> TRUE]]]]
    /\ last' = [NoRequest EXCEPT !.kind = "dial", !.t = t]
    /\ UNCHANGED <<conf, users, groups, files, up, disk, savePending, net,
                   missed, opsLeft, livesLeft, clientVars>>

SyncSnapshot(p, cap) ==
    [users |-> users[p], groups |-> groups[p],
     files |-> [k \in DOMAIN cap |-> cap[k].rec]]

\* a pull that goes on with the next peer after a merge
PullMerge_continue(t) ==
    /\ up[t]
    /\ pull[t].stage = "wait"
    /\ up[pull[t].peer]
    /\ LET merged == mergeState(Mem(t), SyncSnapshot(pull[t].peer, pull[t].cap))
       IN  /\ users' = [users EXCEPT ![t] = merged.users]
           /\ groups' = [groups EXCEPT ![t] = merged.groups]
           /\ files' = [files EXCEPT ![t] = merged.files]
           /\ pull' = [PullsAfter(t, merged.files) EXCEPT
                            ![t] = PullDue(pull[t].idx + 1)]
    /\ last' = [NoRequest EXCEPT !.kind = "merge", !.t = t,
                                 !.sent = pull[t].peer]
    /\ UNCHANGED <<conf, up, disk, savePending, net, missed, opsLeft, livesLeft,
                   clientVars>>

PullMerge(t) ==
    /\ up[t]
    /\ pull[t].stage = "wait"
    /\ up[pull[t].peer]
    /\ LET merged == mergeState(Mem(t), SyncSnapshot(pull[t].peer, pull[t].cap))
       IN  /\ users' = [users EXCEPT ![t] = merged.users]
           /\ groups' = [groups EXCEPT ![t] = merged.groups]
           /\ files' = [files EXCEPT ![t] = merged.files]
           /\ pull' = [PullsAfter(t, merged.files) EXCEPT ![t] = PullIdle]
    /\ last' = [NoRequest EXCEPT !.kind = "merge", !.t = t,
                                 !.sent = pull[t].peer]
    /\ UNCHANGED <<conf, up, disk, savePending, net, missed, opsLeft, livesLeft,
                   clientVars>>

(***************************************************************************)
(* Client download engine (client/download.go).  chunk_i.dat holds a       *)
(* content; os.WriteFile creates or truncates the file and then writes     *)
(* the bytes, two steps between which the process can be interrupted.      *)
(***************************************************************************)
\* the file the downloads of one behaviour are about: three chunks
DlPath == "f1"
DlFileSize == 2 * ChunkSize + 5
DlPeers == <<"peerA", "peerB">>
DlTotalChunks == ChunkFile(DlPath, DlFileSize).TotalChunks

\* queryFileInfo: the manifest the tracker stored at upload, with the peers
FileInfo(path, size, peers) ==
    LET metadata == ChunkFile(path, size)
    IN  [FileName |-> metadata.FileName, FileSize |-> metadata.FileSize,
         FileHash |-> metadata.FileHash, TotalChunks |-> metadata.TotalChunks,
         Chunks |-> metadata.Chunks, Peers |-> peers]

\* queryBitfield: nil (no answer, an error, an empty list) or the set of
\* indices the peer lists
NilBitfield == [known |-> FALSE, has |-> {}]
Bitfield(has) == [known |-> TRUE, has |-> has]
BitfieldAnswers(n) ==
    {NilBitfield} \cup {Bitfield(h) : h \in (SUBSET (0..(n - 1))) \ {{}}}

\* getBitfields: the peers that answered, or every peer as unknown when
\* none did
getBitfields(peers, answer) ==
    LET answered == {i \in 1..Len(peers) : answer[peers[i]].known}
    IN  IF answered = {}
        THEN [p \in {peers[i] : i \in 1..Len(peers)} |-> NilBitfield]
        ELSE [p \in {peers[i] : i \in answered} |-> answer[p]]

\* buildRarityOrder: indices by ascending count of holders, then by index
HolderCount(peerBitfields, i) ==
    Cardinality({p \in DOMAIN peerBitfields :
                    ~peerBitfields[p].known \/ i \in peerBitfields[p].has})
RECURSIVE SortByCount(_, _)
SortByCount(peerBitfields, S) ==
    IF S = {} THEN << >>
    ELSE LET first == CHOOSE i \in S : \A j \in S \ {i} :
                        \/ HolderCount(peerBitfields, i) < HolderCount(peerBitfields, j)
                        \/ /\ HolderCount(peerBitfields, i) = HolderCount(peerBitfields, j)
                           /\ i < j
         IN  <<first>> \o SortByCount(peerBitfields, S \ {first})
\* fault: the sequential order in place of the rarity order
buildRarityOrder_sequential(peerBitfields, totalChunks) ==
    [k \in 1..totalChunks |-> k - 1]

buildRarityOrder(peerBitfields, totalChunks) ==
    SortByCount(peerBitfields, 0..(totalChunks - 1))

\* step 4, "pick best peer": in rarest-first mode any qualified peer (the
\* map is ranged over in no fixed order), else peers[i mod len(peers)]
PeerChoices(d, i) ==
    LET peers == d.info.Peers
        qualified == {p \in DOMAIN d.bfs : ~d.bfs[p].known \/ i \in d.bfs[p].has}
    IN  IF d.rarest /\ qualified # {} THEN qualified
        ELSE {peers[(i % Len(peers)) + 1]}

validateChunkHash(data, expectedHash) == Sha256(data) = expectedHash

\* what a peer sends for get_chunk: the chunk, or other bytes
PeerChunk(d, i, answer) ==
    IF answer = "good"
    THEN ChunkBytes(d.info.FileName, i, d.info.Chunks[i + 1].Size)
    ELSE ChunkBytes("corrupt", i, d.info.Chunks[i + 1].Size)

\* found: the number of chunk files in the chunk directory when the run
\* started (bookkeeping for the resume properties)
NoInfo == FileInfo(DlPath, 0, << >>)
DlIdle == [pc |-> "idle", info |-> NoInfo, rarest |-> FALSE, bfs |-> EmptyMap,
           order |-> << >>, pos |-> 0, peer |-> "", data |-> << >>,
           downloaded |-> 0, skipped |-> 0, err |-> << >>, found |-> 0]
DlFailed(d, err) == [d EXCEPT !.pc = "failed", !.err = err]
NoDest == [created |-> FALSE, chunks |-> << >>, meta |-> FALSE]

\* DownloadFile, steps 1 to 3: file info, chunk directory, download order
DlStart(peers, rarest, answer) ==
    /\ dl.pc \in {"idle", "done", "failed"}
    /\ opsLeft > 0
    /\ opsLeft' = opsLeft - 1
    /\ LET info == FileInfo(DlPath, DlFileSize, peers)
           bfs == IF rarest THEN getBitfields(peers, answer) ELSE EmptyMap
       IN  IF Len(peers) = 0
           THEN dl' = DlFailed(DlIdle, <<"no peers available for download">>)
           ELSE dl' = [DlIdle EXCEPT
                        !.pc = "loop", !.info = info, !.rarest = rarest,
                        !.bfs = bfs,
                        !.order = IF rarest
                                  THEN buildRarityOrder(bfs, info.TotalChunks)
                                  ELSE [k \in 1..info.TotalChunks |-> k - 1],
                        !.pos = 1,
                        !.found = Cardinality(DOMAIN chunkDir)]
    /\ UNCHANGED <<trackerVars, livesLeft, chunkDir, dest>>

\* fault: a loop that requests every chunk, on disk or not
DlChunk_refetch(p, answer) ==
    /\ dl.pc = "loop"
    /\ dl.pos <= Len(dl.order)
    /\ p \in PeerChoices(dl, dl.order[dl.pos])
    /\ IF answer = "error"
       THEN dl' = DlFailed(dl, <<"failed to download chunk", dl.order[dl.pos]>>)
       ELSE dl' = [dl EXCEPT !.pc = "write", !.peer = p,
                             !.data = PeerChunk(dl, dl.order[dl.pos], answer)]
    /\ UNCHANGED <<trackerVars, opsLeft, livesLeft, chunkDir, dest>>

\* fault: a loop that writes what it received without validateChunkHash
DlChunk_noValidate(p, answer) ==
    /\ dl.pc = "loop"
    /\ dl.pos <= Len(dl.order)
    /\ LET i == dl.order[dl.pos]
       IN  IF i \in DOMAIN chunkDir
           THEN dl' = [dl EXCEPT !.skipped = @ + 1, !.pos = @ + 1]
           ELSE /\ p \in PeerChoices(dl, i)
                /\ IF answer = "error"
                   THEN dl' = DlFailed(dl, <<"failed to download chunk", i>>)
                   ELSE dl' = [dl EXCEPT !.pc = "write", !.peer = p,
                                         !.data = PeerChunk(dl, i, answer)]
    /\ UNCHANGED <<trackerVars, opsLeft, livesLeft, chunkDir, dest>>

\* one iteration of step 4 up to the write: os.Stat and skip, or
\* requestChunk and validateChunkHash
DlChunk(p, answer) ==
    /\ dl.pc = "loop"
    /\ dl.pos <= Len(dl.order)
    /\ LET i == dl.order[dl.pos]
       IN  IF i \in DOMAIN chunkDir
           THEN dl' = [dl EXCEPT !.skipped = @ + 1, !.pos = @ + 1]
           ELSE /\ p \in PeerChoices(dl, i)
                /\ IF answer = "error"
                   THEN dl' = DlFailed(dl, <<"failed to download chunk", i>>)
                   ELSE IF ~validateChunkHash(PeerChunk(dl, i, answer),
                                              dl.info.Chunks[i + 1].Hash)
                   THEN dl' = DlFailed(dl, <<"hash mismatch", i>>)
                   ELSE dl' = [dl EXCEPT !.pc = "write", !.peer = p,
                                         !.data = PeerChunk(dl, i, answer)]
    /\ UNCHANGED <<trackerVars, opsLeft, livesLeft, chunkDir, dest>>

\* os.WriteFile(chunkPath, chunkData, 0644): the file is created empty ...
DlWriteOpen ==
    /\ dl.pc = "write"
    /\ chunkDir' = Put(chunkDir, dl.order[dl.pos],
                       ChunkBytes(dl.info.FileName, dl.order[dl.pos], 0))
    /\ dl' = [dl EXCEPT !.pc = "writing"]
    /\ UNCHANGED <<trackerVars, opsLeft, livesLeft, dest>>

\* ... and then receives the bytes
DlWriteData ==
    /\ dl.pc = "writing"
    /\ chunkDir' = Put(chunkDir, dl.order[dl.pos], dl.data)
    /\ dl' = [dl EXCEPT !.pc = "loop", !.downloaded = @ + 1, !.pos = @ + 1]
    /\ UNCHANGED <<trackerVars, opsLeft, livesLeft, dest>>

\* assembleFileFromDisk: os.Create(destPath), then the chunk files in index
\* order up to the first one that cannot be read
RECURSIVE ReadChunks(_, _, _)
ReadChunks(dir, i, totalChunks) ==
    IF i >= totalChunks \/ i \notin DOMAIN dir THEN << >>
    ELSE <<dir[i]>> \o ReadChunks(dir, i + 1, totalChunks)
\* fault: an assembly that takes the chunk files in the order of the download
DlAssemble_downloadOrder ==
    /\ dl.pc = "loop"
    /\ dl.pos > Len(dl.order)
    /\ dest' = [created |-> TRUE,
                chunks |-> [k \in 1..Len(dl.order) |-> chunkDir[dl.order[k]]],
                meta |-> dest.meta]
    /\ dl' = [dl EXCEPT !.pc = "meta"]
    /\ UNCHANGED <<trackerVars, opsLeft, livesLeft, chunkDir>>

DlAssemble ==
    /\ dl.pc = "loop"
    /\ dl.pos > Len(dl.order)
    /\ LET read == ReadChunks(chunkDir, 0, dl.info.TotalChunks)
       IN  /\ dest' = [created |-> TRUE, chunks |-> read, meta |-> dest.meta]
           /\ IF Len(read) < dl.info.TotalChunks
              THEN dl' = DlFailed(dl, <<"missing chunk", Len(read)>>)
              ELSE dl' = [dl EXCEPT !.pc = "meta"]
    /\ UNCHANGED <<trackerVars, opsLeft, livesLeft, chunkDir>>

\* step 5: metadata.json
DlWriteMeta ==
    /\ dl.pc = "meta"
    /\ dest' = [dest EXCEPT !.meta = TRUE]
    /\ dl' = [dl EXCEPT !.pc = "done"]
    /\ UNCHANGED <<trackerVars, opsLeft, livesLeft, chunkDir>>

\* the client process is interrupted (SIGINT, kill): the run is gone, the
\* files stay as they are; a write in progress leaves what it had written
DlInterrupt ==
    /\ dl.pc \in {"loop", "write", "writing", "meta"}
    /\ livesLeft > 0
    /\ livesLeft' = livesLeft - 1
    /\ dl' = DlIdle
    /\ IF dl.pc = "writing"
       THEN \E k \in {0, dl.info.Chunks[dl.order[dl.pos] + 1].Size \div 2} :
                chunkDir' = Put(chunkDir, dl.order[dl.pos],
                                ChunkBytes(dl.info.FileName, dl.order[dl.pos], k))
       ELSE UNCHANGED chunkDir
    /\ UNCHANGED <<trackerVars, opsLeft, dest>>

(***************************************************************************)
(* Specifications.                                                         *)
(***************************************************************************)
\* a cluster of n configured trackers on empty directories, those of the
\* set down not running, the others with their first pull done, and a
\* client that has downloaded nothing; o client commands and l process
\* stops and starts are still to come
ClusterInit(n, down, o, l) ==
    /\ conf = n
    /\ users = [t \in Trackers |-> EmptyMap]
    /\ groups = [t \in Trackers |-> EmptyMap]
    /\ files = [t \in Trackers |-> EmptyMap]
    /\ up = [t \in Trackers |-> t <= n /\ t \notin down]
    /\ disk = [t \in Trackers |-> NoFile]
    /\ savePending = [t \in Trackers |-> 0]
    /\ pull = [t \in Trackers |-> PullIdle]
    /\ net = {}
    /\ last = NoRequest
    /\ missed = [t \in Trackers |-> {}]
    /\ opsLeft = o
    /\ livesLeft = l
    /\ dl = DlIdle
    /\ chunkDir = EmptyMap
    /\ dest = NoDest
TrackerInit(n, o, l) == ClusterInit(n, {}, o, l)

\* group membership: the group handlers and their gossip, two trackers
NextGroups ==
    \/ \E t \in Trackers, g \in GroupIds, u \in UserIds : CreateGroup(t, g, u)
    \/ \E t \in Trackers, g \in GroupIds, u \in UserIds : JoinGroup(t, g, u)
    \/ \E t \in Trackers, g \in GroupIds, o \in UserIds, u \in UserIds :
            AcceptRequest(t, g, o, u)
    \/ \E t \in Trackers, g \in GroupIds, u \in UserIds : LeaveGroup(t, g, u)
    \/ \E t \in Trackers : DeliverSync(t)
    \/ \E t \in Trackers : DialFail(t)
SpecGroups == TrackerInit(2, GroupOps, 0) /\ [][NextGroups]_vars

\* shared files: upload, seeders, stop_sharing and their gossip
NextFiles ==
    \/ \E t \in Trackers, g \in GroupIds, u \in UserIds : CreateGroup(t, g, u)
    \/ \E t \in Trackers, f \in FileNames, size \in FileSizes, g \in GroupIds,
          u \in UserIds : UploadFile(t, f, size, g, u)
    \/ \E t \in Trackers, f \in FileNames, g \in GroupIds, u \in UserIds :
            \E args \in RawUploadArgs(f, g, u) : UploadFileRaw(t, args)
    \/ \E t \in Trackers, g \in GroupIds, f \in FileNames, u \in UserIds :
            AddSeeder(t, g, f, u)
    \/ \E t \in Trackers, g \in GroupIds, f \in FileNames, u \in UserIds :
            StopSharing(t, g, f, u)
    \/ \E t \in Trackers : DeliverSync(t)
SpecFiles == TrackerInit(2, FileOps, 0) /\ [][NextFiles]_vars

\* a tracker that is killed and rejoins through pullStateFromPeers while
\* its peer goes on serving uploads and stop_sharing
NextRace ==
    \/ \E t \in Trackers, g \in GroupIds, u \in UserIds : CreateGroup(t, g, u)
    \/ \E t \in Trackers, f \in FileNames, g \in GroupIds, u \in UserIds :
            UploadFile(t, f, 5, g, u)
    \/ \E t \in Trackers, g \in GroupIds, f \in FileNames, u \in UserIds :
            StopSharing(t, g, f, u)
    \/ \E t \in Trackers : DeliverSync(t)
    \/ \E t \in Trackers : DialFail(t)
    \/ \E t \in Trackers : Kill(t)
    \/ \E t \in Trackers : Start(t)
    \/ \E t \in Trackers : PullDial(t)
    \/ \E t \in Trackers : PullMerge(t)
SpecRace == TrackerInit(2, RaceOps, RaceLives) /\ [][NextRace]_vars

\* user accounts: create_user, login, update_address and their gossip
NextUsers ==
    \/ \E t \in Trackers, u \in UserIds, p \in Passwords : CreateUser(t, u, p)
    \/ \E t \in Trackers, u \in UserIds, p \in Passwords, a \in Addrs :
            Login(t, u, p, a)
    \/ \E t \in Trackers, u \in UserIds, a \in Addrs : UpdateAddress(t, u, a)
    \/ \E t \in Trackers : DeliverSync(t)
SpecUsers == TrackerInit(2, UserOps, 0) /\ [][NextUsers]_vars

\* rejoin: three configured trackers, the first of which is not running,
\* misses the writes its peers acknowledge and catches up with
\* pullStateFromPeers when it starts
NextRejoin ==
    \/ \E t \in Trackers, u \in UserIds, p \in Passwords : CreateUser(t, u, p)
    \/ \E t \in Trackers, g \in GroupIds, u \in UserIds : CreateGroup(t, g, u)
    \/ \E t \in Trackers : DeliverSync(t)
    \/ \E t \in Trackers : DialFail(t)
    \/ \E t \in Trackers : Kill(t)
    \/ \E t \in Trackers : Start(t)
    \/ \E t \in Trackers : PullDial(t)
    \/ \E t \in Trackers : PullMerge(t)
SpecRejoin == ClusterInit(3, {1}, RejoinOps, RejoinLives) /\ [][NextRejoin]_vars

\* outage: one of two trackers stops with its snapshot saved, its peer
\* goes on changing groups both hold, and the tracker restarts and pulls
NextOutage ==
    \/ \E t \in Trackers, g \in GroupIds, u \in UserIds : CreateGroup(t, g, u)
    \/ \E t \in Trackers, g \in GroupIds, o \in UserIds, u \in UserIds :
            AcceptRequest(t, g, o, u)
    \/ \E t \in Trackers : DeliverSync(t)
    \/ \E t \in Trackers : DialFail(t)
    \/ \E t \in Trackers : SaveState(t)
    \/ \E t \in Trackers : Shutdown(t)
    \/ \E t \in Trackers : Kill(t)
    \/ \E t \in Trackers : Start(t)
    \/ \E t \in Trackers : PullDial(t)
    \/ \E t \in Trackers : PullMerge(t)
SpecOutage == TrackerInit(2, OutageOps, OutageLives) /\ [][NextOutage]_vars

\* the download engine of one client
NextDownload ==
    \/ \E peers \in {<< >>, DlPeers}, rarest \in BOOLEAN,
          answer \in [{"peerA", "peerB"} -> BitfieldAnswers(DlTotalChunks)] :
            DlStart(peers, rarest, answer)
    \/ \E p \in {"peerA", "peerB"}, answer \in {"error", "good", "bad"} :
            DlChunk(p, answer)
    \/ DlWriteOpen
    \/ DlWriteData
    \/ DlAssemble
    \/ DlWriteMeta
    \/ DlInterrupt
SpecDownload == TrackerInit(2, DlRuns, DlInterrupts) /\ [][NextDownload]_vars

(***************************************************************************)
(* Group invariants.                                                       *)
(***************************************************************************)
\* C1: on every tracker, after any sequence of create_group, join_group,
\* accept_requests, leave_group and of their sync messages delivered in any
\* order, no user is both in pending(g) and in members(g) of a group g.
C1_PendingMembersDisjoint ==
    \A t \in Trackers : \A g \in DOMAIN groups[t] :
        groups[t][g].Pending \cap groups[t][g].Members = {}

C3_PresentIffOwners ==
    \A t \in Trackers : \A k \in DOMAIN files[t] : files[t][k].Owners # {}

\* C4: a tracker that applies an inbound sync command sends no sync message
\* to any peer, whatever its local state is.
C4_SyncApplySendsNothing ==
    last.kind = "sync" => last.sent = 0

\* C5: for every file record on every tracker the chunk sizes add up to
\* file_size and len(chunks) = total_chunks >= 1, for every argument list
\* upload_file accepts.
C5_ManifestConsistent ==
    \A t \in Trackers : \A k \in DOMAIN files[t] :
        /\ SumSizes(files[t][k].Chunks) = files[t][k].FileSize
        /\ Len(files[t][k].Chunks) = files[t][k].TotalChunks
        /\ files[t][k].TotalChunks >= 1

\* C6: zero-byte files never enter the system: ChunkFile returns an error
\* for an empty file, the tracker rejects upload_file with file_size 0, and
\* no tracker holds a file record with file_size 0.
C6_NoZeroByteFiles ==
    /\ \A f \in FileNames, g \in GroupIds, u \in UserIds :
            ~(/\ last.cmd = "upload_file"
              /\ ClientUploadArgs(f, 0, g, u) # << >>
              /\ last.args = ClientUploadArgs(f, 0, g, u))
    /\ (last.cmd = "upload_file" /\ Sscanf_d(last.args[4]) = 0)
            => last.status = "error"
    /\ \A t \in Trackers : \A k \in DOMAIN files[t] : files[t][k].FileSize # 0

(***************************************************************************)
(* Download engine.                                                        *)
(***************************************************************************)
\* C7: at every moment, also after the download was interrupted at any
\* point and resumed, every chunk_i.dat that exists hashes to
\* chunks[i].hash, and the destination file is assembled only from chunks
\* that pass their hash.
C7_ChunksOnDiskValid ==
    LET chunks == FileInfo(DlPath, DlFileSize, DlPeers).Chunks
    IN  /\ \A i \in DOMAIN chunkDir :
                validateChunkHash(chunkDir[i], chunks[i + 1].Hash)
        /\ \A j \in 1..Len(dest.chunks) :
                validateChunkHash(dest.chunks[j], chunks[j].Hash)

(***************************************************************************)
(* Gossip of user accounts.                                                *)
(***************************************************************************)
\* create_user(u, p) was acknowledged by t1 and its gossip to t2 is no
\* longer in flight: t1 holds (u, p), which only a create_user(u, p)
\* handled by t1 (whose message to t2 is then delivered) or by t2 itself
\* can have produced
CreatedAndDelivered(t1, t2, u, p) ==
    /\ u \in DOMAIN users[t1]
    /\ users[t1][u].Password = p
    /\ [to |-> t2, cmd |-> "sync_create_user", args |-> <<u, p>>] \notin net

LoginHandled(t, u, p) ==
    /\ last.kind = "rpc"
    /\ last.cmd = "login"
    /\ last.t = t
    /\ last.args[1] = u
    /\ last.args[2] = p

Merged(t) == last.kind = "merge" /\ last.t = t
MergedPeer == last.sent

InsertedIfAbsent(before, snap, after) ==
    /\ DOMAIN after = (DOMAIN before) \cup (DOMAIN snap)
    /\ \A k \in DOMAIN before : after[k] = before[k]
    /\ \A k \in (DOMAIN snap) \ (DOMAIN before) : after[k] = snap[k]

\* C11: mergeState never overwrites: every user, group and file record whose
\* key exists locally before the merge is identical after it, and every key
\* of the snapshot that was absent locally is present afterwards with the
\* snapshot's value, also when local handlers created records between
\* LoadState and the merge.
C11_MergeNeverOverwrites ==
    [][\A t \in Trackers : PullMerge(t) =>
        LET snap == SyncSnapshot(pull[t].peer, pull[t].cap)
        IN  /\ InsertedIfAbsent(users[t], snap.users, users'[t])
            /\ InsertedIfAbsent(groups[t], snap.groups, groups'[t])
            /\ InsertedIfAbsent(files[t], snap.files, files'[t])]_vars

\* the case of C11: the restarted tracker lost its state, created a group
\* before its pull completed, and the merge left that group as it was (the
\* peer holds the same group_id with another owner) and inserted the peer's
\* file
C11_Witness ==
    \E t \in Trackers :
        /\ Merged(t)
        /\ ~disk[t].exists
        /\ \E g \in DOMAIN groups[t] \cap DOMAIN groups[MergedPeer] :
                groups[t][g].Owner # groups[MergedPeer][g].Owner
        /\ \E k \in DOMAIN files[t] \cap DOMAIN files[MergedPeer] :
                files[t][k] = files[MergedPeer][k]

(***************************************************************************)
(* Convergence of the gossiped sets.                                       *)
(***************************************************************************)
\* no sync message is in flight and every configured tracker is running
Quiescent == net = {} /\ \A t \in 1..conf : up[t]

\* C12: if all trackers stay up and every sync message is delivered, then
\* once no sync message is in flight all trackers hold the same members and
\* pending sets for every group and the same owners set for every file.
C12_SetsConverge ==
    Quiescent =>
        \A t1 \in 1..conf, t2 \in 1..conf :
            /\ \A g \in DOMAIN groups[t1] \cap DOMAIN groups[t2] :
                /\ groups[t1][g].Members = groups[t2][g].Members
                /\ groups[t1][g].Pending = groups[t2][g].Pending
            /\ \A k \in DOMAIN files[t1] \cap DOMAIN files[t2] :
                files[t1][k].Owners = files[t2][k].Owners

(***************************************************************************)
(* Idempotence of add_seeder and of the sync commands.                     *)
(***************************************************************************)
\* starting states: any users, any group g1 (also one whose owner is no
\* member or whose pending and members overlap), any owners set of a file
\* f1 of the group
SyncUserMaps ==
    UNION {[S -> [Password : Passwords, LoggedIn : {FALSE}, Addr : {""}]] :
            S \in SUBSET UserIds}
SyncGroupMaps ==
    {EmptyMap} \cup
    {Put(EmptyMap, "g1", [Owner |-> o, Members |-> m, Pending |-> p]) :
        o \in UserIds, m \in SUBSET UserIds, p \in SUBSET UserIds}
SyncFileMaps ==
    {EmptyMap} \cup
    {[uploadFile([EmptyMem EXCEPT !.groups = Put(@, "g1", NewGroup("alice"))],
                 ClientUploadArgs("f1", 5, "g1", "alice")).mem.files
        EXCEPT ![FileKey("g1", "f1")].Owners = o] : o \in SUBSET UserIds}

\* the argument lists of a sync command, the too short one included
SyncArgs(cmd) ==
    {<< >>} \cup
    CASE cmd = "sync_create_user" -> {<<u, p>> : u \in UserIds, p \in Passwords}
      [] cmd \in {"sync_create_group", "sync_join_group", "sync_accept_request",
                  "sync_leave_group"} -> {<<"g1", u>> : u \in UserIds}
      [] cmd = "sync_upload_file" ->
            {ClientUploadArgs("f1", 5, "g1", u) : u \in UserIds}
      [] OTHER -> {<<"g1", "f1", u>> : u \in UserIds}

SyncInit ==
    /\ \E us \in SyncUserMaps, gs \in SyncGroupMaps, fs \in SyncFileMaps :
        /\ users = [t \in Trackers |-> IF t = 1 THEN us ELSE EmptyMap]
        /\ groups = [t \in Trackers |-> IF t = 1 THEN gs ELSE EmptyMap]
        /\ files = [t \in Trackers |-> IF t = 1 THEN fs ELSE EmptyMap]
    /\ conf = 2
    /\ up = [t \in Trackers |-> t <= 2]
    /\ disk = [t \in Trackers |-> NoFile]
    /\ savePending = [t \in Trackers |-> 0]
    /\ pull = [t \in Trackers |-> PullIdle]
    /\ net = {}
    /\ last = NoRequest
    /\ missed = [t \in Trackers |-> {}]
    /\ opsLeft = SyncOps
    /\ livesLeft = 0
    /\ dl = DlIdle
    /\ chunkDir = EmptyMap
    /\ dest = NoDest

\* the request handled last is about to be handled again by the same tracker
Again(t, cmd, args) ==
    last.kind = "none" \/ (last.t = t /\ last.cmd = cmd /\ last.args = args)

\* applySync applied to the memory of tracker t, once and then once more
RepeatSync(t, cmd, args) ==
    /\ up[t]
    /\ Again(t, cmd, args)
    /\ opsLeft > 0
    /\ opsLeft' = opsLeft - 1
    /\ Handled(t, "sync", cmd, args, applySync(Mem(t), cmd, args), net)
    /\ UNCHANGED <<conf, livesLeft, clientVars>>

\* addSeeder applied to the memory of tracker t, once and then once more
RepeatAddSeeder(t, g, f, u) ==
    /\ up[t]
    /\ Again(t, "add_seeder", <<g, f, u>>)
    /\ opsLeft > 0
    /\ opsLeft' = opsLeft - 1
    /\ Handled(t, "rpc", "add_seeder", <<g, f, u>>,
               addSeeder(Mem(t), <<g, f, u>>), net)
    /\ UNCHANGED <<conf, livesLeft, clientVars>>

NextSync ==
    \/ \E cmd \in SyncCmds : \E args \in SyncArgs(cmd) : RepeatSync(1, cmd, args)
    \/ \E g \in GroupIds, f \in FileNames, u \in UserIds : RepeatAddSeeder(1, g, f, u)
SpecSync == SyncInit /\ [][NextSync]_vars

\* C13: add_seeder is idempotent, and applying a sync command twice in a row
\* to a tracker leaves it in the same state as applying it once, for every
\* sync command and every starting state.
C13_TwiceAsOnce ==
    [][(/\ last.kind \in {"sync", "rpc"}
        /\ last.cmd \in SyncCmds \cup {"add_seeder"}
        /\ last'.kind = last.kind
        /\ last'.t = last.t
        /\ last'.cmd = last.cmd
        /\ last'.args = last.args
        /\ opsLeft' = opsLeft - 1)
            => /\ users' = users
               /\ groups' = groups
               /\ files' = files
               /\ up' = up]_vars

\* the case of C13: sync_stop_sharing of the only owner has been applied
\* twice: the first application removed the file and started a broadcast,
\* the second found no file
C13_Witness ==
    /\ opsLeft = SyncOps - 2
    /\ last.kind = "sync"
    /\ last.cmd = "sync_stop_sharing"
    /\ last.args = <<"g1", "f1", "alice">>
    /\ FileKey("g1", "f1") \notin DOMAIN files[1]
    /\ net # {}

(***************************************************************************)
(* Seeder hand-off: the client command download_file against a tracker    *)
(* that holds the file, then stop_sharing by the uploader.                 *)
(***************************************************************************)
Uploader == "alice"
Downloader == "bob"
UploaderAddr == ":7001"
DownloaderAddr == ":7002"
DlKey == FileKey("g1", DlPath)

\* the memory of a tracker after the uploader and the downloader registered
\* and logged in (their peer daemons reported their addresses), the
\* downloader was accepted into the uploader's group and the uploader
\* uploaded the file
RECURSIVE RunCmds(_, _)
RunCmds(M, reqs) ==
    IF reqs = << >> THEN M
    ELSE RunCmds(handleConn(M, Head(reqs)[1], Head(reqs)[2]).mem, Tail(reqs))
SharedFileMem ==
    RunCmds(EmptyMem,
        << <<"create_user", <<Uploader, "p1">>>>,
           <<"login", <<Uploader, "p1", "">>>>,
           <<"update_address", <<Uploader, UploaderAddr>>>>,
           <<"create_user", <<Downloader, "p2">>>>,
           <<"login", <<Downloader, "p2", "">>>>,
           <<"update_address", <<Downloader, DownloaderAddr>>>>,
           <<"create_group", <<"g1", Uploader>>>>,
           <<"join_group", <<"g1", Downloader>>>>,
           <<"accept_requests", <<"g1", Uploader, Downloader>>>>,
           <<"upload_file", ClientUploadArgs(DlPath, DlFileSize, "g1", Uploader)>> >>)

SeederInit ==
    /\ conf = 1
    /\ users = [t \in Trackers |-> IF t = 1 THEN SharedFileMem.users ELSE EmptyMap]
    /\ groups = [t \in Trackers |-> IF t = 1 THEN SharedFileMem.groups ELSE EmptyMap]
    /\ files = [t \in Trackers |-> IF t = 1 THEN SharedFileMem.files ELSE EmptyMap]
    /\ up = [t \in Trackers |-> t = 1]
    /\ disk = [t \in Trackers |-> NoFile]
    /\ savePending = [t \in Trackers |-> 0]
    /\ pull = [t \in Trackers |-> PullIdle]
    /\ net = {}
    /\ last = NoRequest
    /\ missed = [t \in Trackers |-> {}]
    /\ opsLeft = SeederOps
    /\ livesLeft = 0
    /\ dl = DlIdle
    /\ chunkDir = EmptyMap
    /\ dest = NoDest

\* the orders in which a peer list can come out of the owners map
SeqsOf(S) ==
    {q \in [1..Cardinality(S) -> S] : \A i, j \in 1..Cardinality(S) : q[i] = q[j] => i = j}

\* client main, case "download_file": DownloadFile step 1 asks tracker t for
\* the file info (queryFileInfo), steps 2 and 3 follow
DownloadFileCmd(t, rarest, answer) ==
    /\ up[t]
    /\ dl.pc \in {"idle", "done", "failed"}
    /\ opsLeft > 0
    /\ opsLeft' = opsLeft - 1
    /\ LET args == <<"g1", DlPath, Downloader>>
           r == handleConn(Mem(t), "get_file_info", args)
       IN  /\ Handled(t, "rpc", "get_file_info", args, r, net)
           /\ IF r.status # "ok"
              THEN dl' = DlFailed(DlIdle, <<"failed to get file info">>)
              ELSE IF r.data.peers = {}
              THEN dl' = DlFailed(DlIdle, <<"no peers available for download">>)
              ELSE \E peers \in SeqsOf(r.data.peers) :
                    LET bfs == IF rarest THEN getBitfields(peers, answer) ELSE EmptyMap
                    IN  dl' = [DlIdle EXCEPT
                                !.pc = "loop",
                                !.info = [FileName |-> r.data.file_name,
                                          FileSize |-> r.data.file_size,
                                          FileHash |-> r.data.file_hash,
                                          TotalChunks |-> r.data.total_chunks,
                                          Chunks |-> r.data.chunks,
                                          Peers |-> peers],
                                !.rarest = rarest,
                                !.bfs = bfs,
                                !.order = IF rarest
                                          THEN buildRarityOrder(bfs, r.data.total_chunks)
                                          ELSE [k \in 1..r.data.total_chunks |-> k - 1],
                                !.pos = 1,
                        !.found = Cardinality(DOMAIN chunkDir)]
    /\ UNCHANGED <<conf, livesLeft, chunkDir, dest>>

\* the uploader stops sharing once the download has completed
StopSharingAfterDownload(t) ==
    /\ dl.pc = "done"
    /\ StopSharing(t, "g1", DlPath, Uploader)

\* get_file_info sent by some client
GetFileInfo(t, u) ==
    /\ up[t]
    /\ ClientRPC(t, "get_file_info", <<"g1", DlPath, u>>)

NextSeeder ==
    \/ \E rarest \in BOOLEAN,
          answer \in [{UploaderAddr, DownloaderAddr} -> {NilBitfield, Bitfield(0..(DlTotalChunks - 1))}] :
            DownloadFileCmd(1, rarest, answer)
    \/ \E q \in {UploaderAddr, DownloaderAddr}, answer \in {"error", "good"} :
            DlChunk(q, answer)
    \/ DlWriteOpen
    \/ DlWriteData
    \/ DlAssemble
    \/ DlWriteMeta
    \/ StopSharingAfterDownload(1)
    \/ \E u \in UserIds : GetFileInfo(1, u)
SpecSeeder == SeederInit /\ [][NextSeeder]_vars

\* C14: after a download_file completes successfully the downloader is in
\* the file's owners on the tracker; when the uploader then calls
\* stop_sharing the file record survives, and a later get_file_info lists the
\* downloader, and only the downloader, as peer.
C14_SeederPromotion ==
    /\ (dl.pc = "done" /\ DlKey \in DOMAIN files[1])
            => Downloader \in files[1][DlKey].Owners
    /\ (/\ dl.pc = "done"
        /\ last.cmd = "stop_sharing"
        /\ last.args = <<"g1", DlPath, Uploader>>
        /\ last.status = "ok")
            => DlKey \in DOMAIN files[1]
    /\ (/\ dl.pc = "done"
        /\ last.cmd = "get_file_info"
        /\ (DlKey \in DOMAIN files[1] => Uploader \notin files[1][DlKey].Owners))
            => /\ last.status = "ok"
               /\ last.data.peers = {DownloaderAddr}

(***************************************************************************)
(* Resume.                                                                 *)
(***************************************************************************)
\* a run of DownloadFile is under way
DlRunning == dl.pc \in {"loop", "write", "writing", "meta", "done"}

\* C15: a download run requests from peers exactly the chunk indices whose
\* chunk file is absent when the run reaches them and never a chunk already
\* on disk; a run that found N chunk files fetches exactly total - N chunks,
\* and a run that found all of them fetches none and leaves the chunk
\* directory unchanged.
C15_ResumeFetchesMissing ==
    /\ [](DlRunning =>
            /\ dl.downloaded + dl.skipped = dl.pos - 1
            /\ dl.skipped <= dl.found
            /\ dl.pc \in {"meta", "done"} =>
                    /\ dl.skipped = dl.found
                    /\ dl.downloaded = dl.info.TotalChunks - dl.found)
    /\ [][(dl.pc = "loop" /\ dl.pos <= Len(dl.order) /\ dl'.pc # "idle") =>
            IF dl.order[dl.pos] \in DOMAIN chunkDir
            THEN /\ dl' = [dl EXCEPT !.skipped = @ + 1, !.pos = @ + 1]
                 /\ chunkDir' = chunkDir
            ELSE dl'.pc \in {"write", "failed"}]_vars
    /\ [][(DlRunning /\ dl.found = dl.info.TotalChunks) => chunkDir' = chunkDir]_vars

\* the case of C15: a download interrupted after one chunk file was written
\* has been resumed and has completed, skipping that chunk and fetching
\* the two others
C15_Witness ==
    /\ dl.pc = "done"
    /\ dl.found = 1
    /\ dl.skipped = 1
    /\ dl.downloaded = DlTotalChunks - 1
    /\ livesLeft < DlInterrupts

(***************************************************************************)
(* Rarest-first piece selection.                                           *)
(***************************************************************************)
\* order is a permutation of 0..totalChunks-1, ascending by the number of
\* peers of the bitfield map that hold the chunk, ties by ascending index
IsRarityOrder(order, peerBitfields, totalChunks) ==
    /\ Len(order) = totalChunks
    /\ {order[k] : k \in 1..Len(order)} = 0..(totalChunks - 1)
    /\ \A a, b \in 1..Len(order) : a < b =>
        \/ HolderCount(peerBitfields, order[a]) < HolderCount(peerBitfields, order[b])
        \/ /\ HolderCount(peerBitfields, order[a]) = HolderCount(peerBitfields, order[b])
           /\ order[a] < order[b]

\* position of chunk index i in the download order
PosOf(order, i) == CHOOSE k \in 1..Len(order) : order[k] = i

\* C16: buildRarityOrder returns a permutation of 0..totalChunks-1 sorted
\* ascending by the number of peers holding each chunk, ties broken by
\* ascending index, for every bitfield map (nil bitfields, bitfields shorter
\* than totalChunks and the empty map included); with one peer holding
\* chunks {0,1} and the other holding {0}, chunk 1 is requested before
\* chunk 0.
C16_RarityOrder ==
    /\ (DlRunning /\ dl.rarest) =>
            /\ dl.order = buildRarityOrder(dl.bfs, dl.info.TotalChunks)
            /\ IsRarityOrder(dl.order, dl.bfs, dl.info.TotalChunks)
            /\ (/\ DOMAIN dl.bfs = {"peerA", "peerB"}
                /\ dl.bfs["peerA"] = Bitfield({0, 1})
                /\ dl.bfs["peerB"] = Bitfield({0}))
                    => /\ PosOf(dl.order, 1) < PosOf(dl.order, 0)
                       /\ (dl.pc \in {"write", "writing"} /\ dl.order[dl.pos] = 0)
                            => 1 \in DOMAIN chunkDir
    /\ \A n \in 0..DlTotalChunks :
            IsRarityOrder(buildRarityOrder(EmptyMap, n), EmptyMap, n)

\* the case of C16: a rarest-first run with peerA holding chunks {0,1} and
\* peerB holding {0} has written chunk 1 and is writing chunk 0
C16_Witness ==
    /\ dl.pc = "writing"
    /\ dl.rarest
    /\ DOMAIN dl.bfs = {"peerA", "peerB"}
    /\ dl.bfs["peerA"] = Bitfield({0, 1})
    /\ dl.bfs["peerB"] = Bitfield({0})
    /\ dl.order[dl.pos] = 0
    /\ 1 \in DOMAIN chunkDir
    /\ dl.found = 0

\* C17: in rarest-first mode every peer of the tracker's peer list that does
\* not answer get_bitfield, answers with an error or answers with an empty
\* list is treated as unknown: it is counted as holding every chunk and kept
\* as a candidate source, also when other peers did return a bitfield.
C17_SilentPeersUnknown ==
    (DlRunning /\ dl.rarest) =>
        \A i \in 1..Len(dl.info.Peers) :
            /\ dl.info.Peers[i] \in DOMAIN dl.bfs
            /\ \A c \in 0..(dl.info.TotalChunks - 1) :
                (dl.info.Peers[i] \in DOMAIN dl.bfs /\ ~dl.bfs[dl.info.Peers[i]].known)
                    => dl.info.Peers[i] \in PeerChoices(dl, c)


(***************************************************************************)
(* Membership checks on list_files and upload_file as the client sends     *)
(* them.                                                                   *)
(***************************************************************************)
\* the client's list_files case sends the group id alone: the session's
\* user id is not part of the request
ClientListFilesArgs(groupID, userID) == <<groupID>>
ListFiles(t, g, u) ==
    /\ up[t]
    /\ ClientRPC(t, "list_files", ClientListFilesArgs(g, u))

NextMembers ==
    \/ \E t \in Trackers, g \in GroupIds, u \in UserIds : CreateGroup(t, g, u)
    \/ \E t \in Trackers, g \in GroupIds, u \in UserIds : JoinGroup(t, g, u)
    \/ \E t \in Trackers, f \in FileNames, g \in GroupIds, u \in UserIds :
            UploadFile(t, f, 5, g, u)
    \/ \E t \in Trackers, g \in GroupIds, u \in UserIds : ListFiles(t, g, u)
    \/ \E t \in Trackers : DeliverSync(t)
SpecMembers == TrackerInit(2, MemberOps, 0) /\ [][NextMembers]_vars

\* C18: list_files or upload_file for group g, issued through the client by
\* a user who is not in members(g) (a pending user included), is answered
\* with the error "not a member" and leaves the tracker's files unchanged
C18_NonMemberRejected ==
    [][\A t \in Trackers, g \in GroupIds, u \in UserIds :
          /\ g \in DOMAIN groups[t]
          /\ u \notin groups[t][g].Members
          /\ \/ IsRPC(t, "list_files", ClientListFilesArgs(g, u))
             \/ \E f \in FileNames :
                    IsRPC(t, "upload_file", ClientUploadArgs(f, 5, g, u))
          => /\ last'.status = "error"
             /\ last'.data \in {"not a member", "not a member of this group"}
             /\ files' = files]_vars


(***************************************************************************)
(* accept_requests: the owner check and the move from pending to members.  *)
(***************************************************************************)
\* C19: accept_requests for an existing group by a user who is not its
\* owner is answered "not owner", changes no group and broadcasts nothing;
\* by the owner it leaves the target user in members and out of pending,
\* whether or not the user was pending before
C19_AcceptRequests ==
    [][\A t \in Trackers, g \in GroupIds, o \in UserIds, u \in UserIds :
          AcceptRequest(t, g, o, u) /\ g \in DOMAIN groups[t]
          => IF groups[t][g].Owner # o
             THEN /\ last'.status = "error"
                  /\ last'.data = "not owner"
                  /\ groups' = groups
                  /\ net' = net
                  /\ last'.sent = 0
             ELSE /\ last'.status = "ok"
                  /\ u \in groups'[t][g].Members
                  /\ u \notin groups'[t][g].Pending]_vars
\* the owner has accepted another user, who is now a member and not pending
C19_Witness ==
    /\ last.kind = "rpc"
    /\ last.cmd = "accept_requests"
    /\ last.status = "ok"
    /\ last.args[3] # last.args[2]
    /\ last.args[1] \in DOMAIN groups[last.t]
    /\ last.args[3] \in groups[last.t][last.args[1]].Members
    /\ last.args[3] \notin groups[last.t][last.args[1]].Pending


(***************************************************************************)
(* leave_group: who may leave and what a refusal leaves behind.            *)
(***************************************************************************)
\* C20: leave_group succeeds only for a member who is not the owner: the
\* owner is refused with "owner cannot leave", a user who is not in members
\* (a user who has just left, for instance) with "not a member", both
\* refusals leave every group unchanged, and a success removes the user
\* from members
C20_LeaveGroup ==
    [][\A t \in Trackers, g \in GroupIds, u \in UserIds :
          LeaveGroup(t, g, u)
          => LET refused(texts) == /\ last'.status = "error"
                                   /\ last'.data \in texts
                                   /\ groups' = groups
             IN  IF g \notin DOMAIN groups[t]
                 THEN refused({"group not found"})
                 ELSE IF groups[t][g].Owner = u
                 THEN refused({"owner cannot leave", "owner cannot leave the group"})
                 ELSE IF u \notin groups[t][g].Members
                 THEN refused({"not a member"})
                 ELSE /\ last'.status = "ok"
                      /\ groups'[t][g].Members = groups[t][g].Members \ {u}
                      /\ u \notin groups'[t][g].Members]_vars


(***************************************************************************)
(* join_group by a user who is already a member.                           *)
(***************************************************************************)
\* C21: join_group by a user who is already a member of the group (the
\* owner included) leaves the group's members and pending sets unchanged;
\* by a non-member it adds the user to pending and changes nothing else
C21_JoinByMemberNoOp ==
    [][\A t \in Trackers, g \in GroupIds, u \in UserIds :
          JoinGroup(t, g, u) /\ g \in DOMAIN groups[t]
          => IF u \in groups[t][g].Members
             THEN groups'[t][g] = groups[t][g]
             ELSE groups'[t][g] =
                     [groups[t][g] EXCEPT !.Pending = @ \cup {u}]]_vars


(***************************************************************************)
(* One tracker holding a shared file: stop_sharing, add_seeder, a second   *)
(* upload, list_files and get_file_info.                                   *)
(***************************************************************************)
\* the users a tracker can hold after create_user, login and update_address:
\* each known user is logged out with no address or logged in with an address
SharedUserMaps ==
    UNION {[S -> {[Password |-> "p1", LoggedIn |-> FALSE, Addr |-> ""],
                  [Password |-> "p1", LoggedIn |-> TRUE, Addr |-> UploaderAddr],
                  [Password |-> "p1", LoggedIn |-> TRUE, Addr |-> DownloaderAddr]}] :
            S \in SUBSET UserIds}
\* group g1 of alice, with bob accepted or unknown to the group, file f1
\* uploaded by alice, who is its only owner
SharedInit ==
    /\ \E us \in SharedUserMaps, accepted \in BOOLEAN :
        LET M0 == RunCmds(EmptyMem,
                    << <<"create_group", <<"g1", Uploader>>>> >>
                    \o (IF accepted
                        THEN << <<"join_group", <<"g1", Downloader>>>>,
                                <<"accept_requests", <<"g1", Uploader, Downloader>>>> >>
                        ELSE << >>)
                    \o << <<"upload_file", ClientUploadArgs("f1", 5, "g1", Uploader)>> >>)
        IN  /\ users = [t \in Trackers |-> IF t = 1 THEN us ELSE EmptyMap]
            /\ groups = [t \in Trackers |-> IF t = 1 THEN M0.groups ELSE EmptyMap]
            /\ files = [t \in Trackers |-> IF t = 1 THEN M0.files ELSE EmptyMap]
    /\ conf = 1
    /\ up = [t \in Trackers |-> t = 1]
    /\ disk = [t \in Trackers |-> NoFile]
    /\ savePending = [t \in Trackers |-> 0]
    /\ pull = [t \in Trackers |-> PullIdle]
    /\ net = {}
    /\ last = NoRequest
    /\ missed = [t \in Trackers |-> {}]
    /\ opsLeft = SharedOps
    /\ livesLeft = 0
    /\ dl = DlIdle
    /\ chunkDir = EmptyMap
    /\ dest = NoDest

NextShared ==
    \/ \E g \in GroupIds, f \in FileNames, u \in UserIds : StopSharing(1, g, f, u)
    \/ \E g \in GroupIds, f \in FileNames, u \in UserIds : AddSeeder(1, g, f, u)
    \/ \E f \in FileNames, size \in FileSizes, g \in GroupIds, u \in UserIds :
            UploadFile(1, f, size, g, u)
    \/ \E g \in GroupIds, u \in UserIds : ListFiles(1, g, u)
    \/ \E u \in UserIds : GetFileInfo(1, u)
    \/ \E u \in UserIds, a \in Addrs : Login(1, u, "p1", a)
    \/ \E u \in UserIds, p \in Passwords : CreateUser(1, u, p)
    \/ \E g \in GroupIds, u \in UserIds : CreateGroup(1, g, u)
SpecShared == SharedInit /\ [][NextShared]_vars


\* C22: stop_sharing(g, f, u) removes u from the owners of f; when no owner
\* is left the record is deleted, list_files(g) asked next does not show f
\* and upload_file of the same (g, f) by a member succeeds; when other
\* owners remain, the record is unchanged but for u
C22_StopSharing ==
    [][\A g \in GroupIds, f \in FileNames, u \in UserIds :
          IsRPC(1, "stop_sharing", <<g, f, u>>)
          /\ FileKey(g, f) \in DOMAIN files[1]
          => LET k == FileKey(g, f)
                 rest == files[1][k].Owners \ {u}
                 M2 == [users |-> users'[1], groups |-> groups'[1],
                        files |-> files'[1]]
             IN  /\ last'.status = "ok"
                 /\ IF rest = {}
                    THEN /\ k \notin DOMAIN files'[1]
                         /\ listFiles(M2, ClientListFilesArgs(g, u)).data
                                = "no files in group"
                         /\ \A w \in groups[1][g].Members :
                                uploadFile(M2, ClientUploadArgs(f, 5, g, w)).status
                                    = "ok"
                    ELSE /\ k \in DOMAIN files'[1]
                         /\ files'[1][k] = [files[1][k] EXCEPT !.Owners = rest]]_vars
\* the last owner has stopped sharing and the record is gone
C22_Witness ==
    /\ last.kind = "rpc"
    /\ last.cmd = "stop_sharing"
    /\ last.status = "ok"
    /\ last.data = "file removed from tracker (no owners)"
    /\ FileKey(last.args[1], last.args[2]) \notin DOMAIN files[1]


\* C23: the peers returned by get_file_info for a file are exactly the
\* addresses of the users who are owners of the file and logged in on that
\* tracker at the moment of the call; an owner who is not logged in
\* contributes nothing
C23_PeersAreLoggedInOwners ==
    (last.kind = "rpc" /\ last.cmd = "get_file_info" /\ last.status = "ok")
    => LET t == last.t
           k == FileKey(last.args[1], last.args[2])
       IN  last.data.peers =
              {users[t][u].Addr :
                  u \in {x \in DOMAIN users[t] :
                            x \in files[t][k].Owners /\ users[t][x].LoggedIn}}
\* get_file_info answered for a file whose owner is logged in, while a user
\* who is no owner is logged in under another address
C23_Witness ==
    /\ last.kind = "rpc"
    /\ last.cmd = "get_file_info"
    /\ last.status = "ok"
    /\ \E u \in files[1][DlKey].Owners \cap DOMAIN users[1] :
        \E v \in DOMAIN users[1] \ files[1][DlKey].Owners :
            /\ users[1][u].LoggedIn
            /\ users[1][v].LoggedIn
            /\ users[1][v].Addr # users[1][u].Addr
            /\ last.data.peers = {users[1][u].Addr}


\* C24: after a successful upload_file with a manifest (file hash, file
\* size, ordered chunks), get_file_info for the same group and file name on
\* the same tracker returns that hash, size, chunk count and chunk list for
\* as long as the record exists; add_seeder and stop_sharing never change
\* the manifest of a record they leave in place
C24_ManifestRoundTrip ==
    [][LET M2 == [users |-> users'[1], groups |-> groups'[1], files |-> files'[1]]
           manifest(F) == <<F.FileHash, F.FileSize, F.TotalChunks, F.Chunks>>
           returned(d) == <<d.file_hash, d.file_size, d.total_chunks, d.chunks>>
       IN  /\ \A f \in FileNames, size \in FileSizes, g \in GroupIds, u \in UserIds :
                (IsRPC(1, "upload_file", ClientUploadArgs(f, size, g, u))
                 /\ last'.status = "ok")
                => returned(getFileInfo(M2, <<g, f, u>>).data)
                     = <<ChunkFile(f, size).FileHash, size,
                         ChunkFile(f, size).TotalChunks, ChunkFile(f, size).Chunks>>
           /\ \A k \in DOMAIN files[1] \cap DOMAIN files'[1] :
                manifest(files'[1][k]) = manifest(files[1][k])
           /\ \A g \in GroupIds, f \in FileNames, u \in UserIds :
                (IsRPC(1, "get_file_info", <<g, f, u>>) /\ last'.status = "ok")
                => returned(last'.data) = manifest(files[1][FileKey(g, f)])]_vars
\* get_file_info answered for a file uploaded anew after the first record
\* was deleted
C24_Witness ==
    /\ last.kind = "rpc"
    /\ last.cmd = "get_file_info"
    /\ last.status = "ok"
    /\ last.data.file_size = ChunkSize + 1
    /\ last.data.total_chunks = 2


(***************************************************************************)
(* The client's SendToTracker (client/network.go): fail-over between the   *)
(* trackers of tracker_info.txt.                                           *)
(***************************************************************************)
\* SendToTracker asking the configured addresses in their order only
SendToTracker_configuredOrder(active, addrs, answers) ==
    LET hits == {i \in 1..Len(addrs) : answers[addrs[i]]}
        first == CHOOSE i \in hits : \A j \in hits : i <= j
    IN  IF hits = {}
        THEN [from |-> 0, contacted |-> addrs]
        ELSE [from |-> addrs[first], contacted |-> SubSeq(addrs, 1, first)]

\* SendToTracker: the candidate list is State.ActiveTrackers followed by the
\* addresses of State.TrackerAddrs not seen among them; tryTracker is called
\* on the candidates in turn until one answers.  answers[a] tells whether
\* tryTracker(a) connects, sends and receives; from = 0 stands for the
\* response {error, "no trackers available"}
SendToTracker(active, addrs, answers) ==
    LET seen == {active[i] : i \in 1..Len(active)}
        candidates == active \o SelectSeq(addrs, LAMBDA a : a \notin seen)
        RECURSIVE try(_, _)
        try(rest, contacted) ==
            IF rest = << >>
            THEN [from |-> 0, contacted |-> contacted]
            ELSE IF answers[Head(rest)]
            THEN [from |-> Head(rest), contacted |-> Append(contacted, Head(rest))]
            ELSE try(Tail(rest), Append(contacted, Head(rest)))
    IN  try(candidates, << >>)

\* State.ActiveTrackers: the configured addresses that answered the probe of
\* UpdateActiveTrackers, in file order; trackers may have stopped since
ActiveLists ==
    {SelectSeq([i \in 1..conf |-> i], LAMBDA a : a \in S) : S \in SUBSET (1..conf)}

\* a client command sent with SendToTracker: a tracker that is not running
\* refuses the connection
SendToTrackerCmd(active, cmd, args) ==
    /\ opsLeft > 0
    /\ LET r == SendToTracker(active, [i \in 1..conf |-> i], up)
       IN  IF r.from # 0
           THEN ClientRPC(r.from, cmd, args)
           ELSE /\ opsLeft' = opsLeft - 1
                /\ last' = [kind |-> "rpc", t |-> 0, cmd |-> cmd, args |-> args,
                            status |-> "error", data |-> "no trackers available",
                            sent |-> 0]
                /\ UNCHANGED <<conf, users, groups, files, up, disk, savePending,
                               pull, net, missed, livesLeft, clientVars>>

NextFailover ==
    \/ \E active \in ActiveLists, u \in UserIds, p \in Passwords :
            SendToTrackerCmd(active, "create_user", <<u, p>>)
    \/ \E t \in Trackers : Kill(t)
    \/ \E t \in Trackers : DeliverSync(t)
    \/ \E t \in Trackers : DialFail(t)
SpecFailover == TrackerInit(3, FailoverOps, FailoverLives) /\ [][NextFailover]_vars

\* C25: SendToTracker tries the active trackers in order, then the other
\* configured addresses in order; the response is that of the first
\* candidate that answers, no later candidate is contacted, and the
\* response is {error, "no trackers available"} exactly when no candidate
\* answers
C25_FirstAnswerWins ==
    /\ [](\A active \in ActiveLists :
            LET addrs == [i \in 1..conf |-> i]
                rest == SelectSeq(addrs, LAMBDA a : \A i \in 1..Len(active) : active[i] # a)
                c == active \o rest
                r == SendToTracker(active, addrs, up)
            IN  IF \A i \in 1..Len(c) : ~up[c[i]]
                THEN r.from = 0 /\ r.contacted = c
                ELSE \E i \in 1..Len(c) :
                        /\ up[c[i]]
                        /\ \A j \in 1..(i - 1) : ~up[c[j]]
                        /\ r.from = c[i]
                        /\ r.contacted = SubSeq(c, 1, i))
    /\ [][\A active \in ActiveLists, u \in UserIds, p \in Passwords :
            SendToTrackerCmd(active, "create_user", <<u, p>>)
            => LET r == SendToTracker(active, [i \in 1..conf |-> i], up)
               IN  /\ last'.t = r.from
                   /\ (last'.data = "no trackers available")
                        <=> (\A t \in 1..conf : ~up[t])
                   /\ \A t \in (1..conf) \ {r.from} : users'[t] = users[t]]_vars
\* the command was answered by the second candidate: the active list named
\* a tracker that had stopped
C25_Witness ==
    /\ last.kind = "rpc"
    /\ last.cmd = "create_user"
    /\ last.status = "ok"
    /\ \E t \in 1..conf : ~up[t] /\ t # last.t
    /\ \E active \in ActiveLists :
        /\ Len(active) >= 2
        /\ ~up[active[1]]
        /\ SendToTracker(active, [i \in 1..conf |-> i], up).from = last.t
        /\ Len(SendToTracker(active, [i \in 1..conf |-> i], up).contacted) = 2


(***************************************************************************)
(* Persistence of acknowledged mutations.                                  *)
(***************************************************************************)
\* C26: every mutating handler that succeeds schedules a persistence write:
\* once the writes scheduled on a tracker have run, the snapshot on its disk
\* equals its users, groups and files, so that a tracker killed and
\* restarted alone still has every mutation it acknowledged
C26_MutationsPersisted ==
    (/\ last.kind = "rpc"
     /\ last.status = "ok"
     /\ last.cmd \in {"create_user", "login", "update_address", "create_group",
                      "join_group", "accept_requests", "leave_group",
                      "upload_file", "stop_sharing", "add_seeder"}
     /\ up[last.t]
     /\ savePending[last.t] = 0)
    => LoadState(disk[last.t]) = Mem(last.t)


C28_CreationNeverOverwrites ==
    [][LET refused(cmd, args, text) ==
                /\ last'.status = "error"
                /\ last'.data = text
                /\ users' = users /\ groups' = groups /\ files' = files
                /\ handleConn(Mem(1), cmd, args).bcast = {}
       IN  /\ \A u \in UserIds, p \in Passwords :
                (IsRPC(1, "create_user", <<u, p>>) /\ u \in DOMAIN users[1])
                => refused("create_user", <<u, p>>, "user exists")
           /\ \A g \in GroupIds, u \in UserIds :
                (IsRPC(1, "create_group", <<g, u>>) /\ g \in DOMAIN groups[1])
                => refused("create_group", <<g, u>>, "group exists")
           /\ \A f \in FileNames, size \in FileSizes, g \in GroupIds, u \in UserIds :
                (IsRPC(1, "upload_file", ClientUploadArgs(f, size, g, u))
                 /\ FileKey(g, f) \in DOMAIN files[1])
                => refused("upload_file", ClientUploadArgs(f, size, g, u),
                           "file already exists in group")]_vars
\* C28 amended: the upload_file part holds for an uploader who is a member
\* of the group; a user who is not a member is refused with "not a member"
\* before the file key is looked up
C28_Amended ==
    [][LET refused(cmd, args, text) ==
                /\ last'.status = "error"
                /\ last'.data = text
                /\ users' = users /\ groups' = groups /\ files' = files
                /\ handleConn(Mem(1), cmd, args).bcast = {}
       IN  /\ \A u \in UserIds, p \in Passwords :
                (IsRPC(1, "create_user", <<u, p>>) /\ u \in DOMAIN users[1])
                => refused("create_user", <<u, p>>, "user exists")
           /\ \A g \in GroupIds, u \in UserIds :
                (IsRPC(1, "create_group", <<g, u>>) /\ g \in DOMAIN groups[1])
                => refused("create_group", <<g, u>>, "group exists")
           /\ \A f \in FileNames, size \in FileSizes, g \in GroupIds, u \in UserIds :
                (IsRPC(1, "upload_file", ClientUploadArgs(f, size, g, u))
                 /\ FileKey(g, f) \in DOMAIN files[1])
                => refused("upload_file", ClientUploadArgs(f, size, g, u),
                           IF u \in groups[1][g].Members
                           THEN "file already exists in group"
                           ELSE "not a member")]_vars
\* a second create_user for a user the tracker holds has been refused
C28_Witness ==
    /\ last.kind = "rpc"
    /\ last.cmd = "create_user"
    /\ last.status = "error"
    /\ last.data = "user exists"
    /\ last.args[1] \in DOMAIN users[1]
    /\ users[1][last.args[1]].Password # last.args[2]


(***************************************************************************)
(* Termination of the gossip.                                              *)
(***************************************************************************)
\* the trackers of SpecFiles with every sync message in flight eventually
\* received: broadcastToTrackers dials each peer in a goroutine of its own
SpecFilesFair == SpecFiles /\ WF_vars(\E t \in Trackers : DeliverSync(t))

\* C29: after a finite sequence of client requests against running trackers
\* the gossip quiesces: from some point on no sync message is in flight
C29_GossipQuiesces == <>[](net = {})


(***************************************************************************)
(* sync_upload_file on a peer.                                             *)
(***************************************************************************)
\* C30: sync_upload_file received by a tracker that has no record for the
\* (group, file name) inserts the file with the uploader as its only owner,
\* in whatever order the tracker received the sync_create_group and
\* sync_accept_request messages that concern the group; received by a
\* tracker that has the key, it changes nothing
C30_SyncUploadInserts ==
    [][\A t \in Trackers :
          (/\ last'.kind = "sync"
           /\ last'.t = t
           /\ last'.cmd = "sync_upload_file"
           /\ Len(last'.args) >= 6)
          => LET k == FileKey(last'.args[2], last'.args[1])
             IN  IF k \in DOMAIN files[t]
                 THEN files'[t] = files[t]
                 ELSE /\ k \in DOMAIN files'[t]
                      /\ files'[t][k].Owners = {last'.args[3]}]_vars


(***************************************************************************)
(* Routing of the commands by the dispatcher.                              *)
(***************************************************************************)
\* C37: every sync command a handler broadcasts and every client command
\* (leave_group and add_seeder included) is routed by the receiving tracker
\* to its handler: no such request is answered with the unknown-command
\* error
C37_EveryCommandRouted ==
    (last.kind \in {"rpc", "sync"})
    => ~(last.status = "error" /\ last.data = "unkown command")


(***************************************************************************)
(* pullStateFromPeers on a cluster of three trackers: tracker 1 is down    *)
(* with a snapshot on disk, trackers 2 and 3 hold different records of     *)
(* the user bob, created on both while their gossip was in flight.         *)
(***************************************************************************)
PullInit ==
    /\ conf = 3
    /\ users = [t \in Trackers |->
                  CASE t = 2 -> RunCmds(EmptyMem, << <<"create_user", <<"bob", "p1">>>> >>).users
                    [] t = 3 -> RunCmds(EmptyMem, << <<"create_user", <<"bob", "p2">>>> >>).users
                    [] OTHER -> EmptyMap]
    /\ groups = [t \in Trackers |-> EmptyMap]
    /\ files = [t \in Trackers |-> EmptyMap]
    /\ up = [t \in Trackers |-> t \in {2, 3}]
    /\ disk = [t \in Trackers |->
                  IF t = 1
                  THEN [exists |-> TRUE,
                        state |-> RunCmds(EmptyMem,
                                    << <<"create_user", <<"alice", "p1">>>> >>)]
                  ELSE NoFile]
    /\ savePending = [t \in Trackers |-> 0]
    /\ pull = [t \in Trackers |-> PullIdle]
    /\ net = {}
    /\ last = NoRequest
    /\ missed = [t \in Trackers |-> {}]
    /\ opsLeft = PullOps
    /\ livesLeft = PullLives
    /\ dl = DlIdle
    /\ chunkDir = EmptyMap
    /\ dest = NoDest

NextPull ==
    \/ \E t \in Trackers, g \in GroupIds, u \in UserIds : CreateGroup(t, g, u)
    \/ \E t \in Trackers : DeliverSync(t)
    \/ \E t \in Trackers : DialFail(t)
    \/ \E t \in Trackers : Kill(t)
    \/ \E t \in Trackers : Start(t)
    \/ \E t \in Trackers : PullDial(t)
    \/ \E t \in Trackers : PullMerge(t)
SpecPull == PullInit /\ [][NextPull]_vars

\* C31: pullStateFromPeers contacts the peers in configured order; a peer
\* is passed over only when it cannot be reached; the snapshot of the first
\* peer that answers is merged (absent keys are added, present keys kept)
\* and no peer is contacted after it; when every peer has been passed over
\* the maps are those loaded from disk
C31_PullFirstAnswer ==
    /\ []((/\ last.kind = "dial"
           /\ pull[last.t].stage = "idle"
           /\ opsLeft = PullOps)
          => Mem(last.t) = LoadState(disk[last.t]))
    /\ [][\A t \in Trackers :
            (up[t] /\ up'[t])
            => LET i == pull[t].idx
                   added(new, old, snap) ==
                       /\ DOMAIN new = DOMAIN old \cup DOMAIN snap
                       /\ \A k \in DOMAIN old : new[k] = old[k]
                       /\ \A k \in DOMAIN snap \ DOMAIN old : new[k] = snap[k]
               IN  /\ (pull[t].stage # "idle" /\ pull'[t].stage # "idle")
                      => /\ pull'[t].idx \in {i, i + 1}
                         /\ pull'[t].idx = i + 1
                            => ~up'[peerAddrs(t)[i]]
                         /\ pull'[t].stage = "wait"
                            => pull'[t].peer = peerAddrs(t)[pull'[t].idx]
                   /\ pull[t].stage = "idle" => pull'[t].stage = "idle"
                   /\ (pull[t].stage # "idle" /\ pull'[t].stage = "idle")
                      => \/ /\ last'.kind = "dial"
                            /\ i > Len(peerAddrs(t))
                            /\ Mem(t)' = Mem(t)
                         \/ /\ last'.kind = "merge"
                            /\ last'.t = t
                            /\ pull[t].peer = peerAddrs(t)[i]
                            /\ up[pull[t].peer]
                            /\ added(users'[t], users[t], users[pull[t].peer])
                            /\ added(groups'[t], groups[t], groups[pull[t].peer])
                            /\ added(files'[t], files[t], files[pull[t].peer])
                   /\ (last'.kind = "dial" /\ last'.t = t) => Mem(t)' = Mem(t)
                   /\ (last'.kind = "merge" /\ last'.t = t)
                      => pull'[t].stage = "idle"]_vars
\* tracker 1 restarted while tracker 2 was down: it passed over tracker 2
\* and merged the snapshot of tracker 3, keeping what it loaded from disk
C31_Witness ==
    /\ last.kind = "merge"
    /\ last.t = 1
    /\ last.sent = 3
    /\ ~up[2]
    /\ "alice" \in DOMAIN users[1]
    /\ "bob" \in DOMAIN users[1]
    /\ users[1]["bob"].Password = "p2"


(***************************************************************************)
(* Download engine: the peer a chunk is requested from.                    *)
(***************************************************************************)
\* C32: in rarest-first mode chunk i is requested from a peer whose bitfield
\* includes i or is unknown (the peer gave no bitfield) whenever such a peer
\* exists, and from a peer of the full list only when none exists; in
\* sequential mode chunk i is requested from peers[i mod len(peers)]
C32_PeerSelection ==
    [][(dl.pc = "loop" /\ dl'.pc = "write")
        => LET i == dl.order[dl.pos]
               peers == dl.info.Peers
               all == {peers[k] : k \in 1..Len(peers)}
               holds(p) == \/ p \notin DOMAIN dl.bfs
                           \/ ~dl.bfs[p].known
                           \/ i \in dl.bfs[p].has
           IN  IF dl.rarest
               THEN /\ dl'.peer \in all
                    /\ (\E p \in all : holds(p)) => holds(dl'.peer)
               ELSE dl'.peer = peers[(i % Len(peers)) + 1]]_vars


(***************************************************************************)
(* Download engine: a chunk that cannot be fetched or does not validate.   *)
(***************************************************************************)
\* C33: when the fetch of chunk i fails or the bytes received do not hash to
\* chunks[i].hash, the download aborts with an error naming chunk i: only
\* bytes that validate are handed to the write of chunk_i.dat, the aborted
\* run requests no later chunk and writes neither the destination nor
\* metadata.json, and the chunk files written earlier stay as they are
C33_BadChunkAborts ==
    /\ [](dl.pc \in {"write", "writing"}
          => validateChunkHash(dl.data,
                               dl.info.Chunks[dl.order[dl.pos] + 1].Hash))
    /\ [][(dl.pc = "loop" /\ dl.pos <= Len(dl.order) /\ dl'.pc = "failed")
            => /\ dl'.err \in {<<"failed to download chunk", dl.order[dl.pos]>>,
                                <<"hash mismatch", dl.order[dl.pos]>>}
               /\ dl.order[dl.pos] \notin DOMAIN chunkDir'
               /\ chunkDir' = chunkDir
               /\ dest' = dest]_vars
    /\ [][dl.pc = "failed"
            => /\ chunkDir' = chunkDir
               /\ dest' = dest
               /\ dl' # dl => dl'.pos <= 1 /\ dl'.downloaded = 0]_vars
\* a run wrote a chunk file and then received bytes for another chunk that
\* do not validate: it has failed, the first chunk file is on disk, and no
\* destination exists
C33_Witness ==
    /\ dl.pc = "failed"
    /\ dl.err[1] = "hash mismatch"
    /\ dl.downloaded = 1
    /\ dl.err[2] \notin DOMAIN chunkDir
    /\ Cardinality(DOMAIN chunkDir) = 1
    /\ ~dest.created
    /\ ~dest.meta


(***************************************************************************)
(* Download engine: assembly of the destination file.                      *)
(***************************************************************************)
\* C34: the destination file is written only when every chunk file
\* 0..N-1 is in the chunk directory, its content is the chunk files in index
\* order whatever the order of the download was, and metadata.json is
\* written only after the assembly succeeded
C34_AssemblyInIndexOrder ==
    /\ [](dest.meta => dest.created /\ Len(dest.chunks) = DlTotalChunks)
    /\ [][dest' # dest
            => LET n == dl.info.TotalChunks
               IN  \/ /\ dl.pc = "loop"
                      /\ dl.pos > Len(dl.order)
                      /\ \A i \in 0..(n - 1) : i \in DOMAIN chunkDir
                      /\ dest'.created
                      /\ dest'.chunks = [k \in 1..n |-> chunkDir[k - 1]]
                      /\ dest'.meta = dest.meta
                      /\ dl'.pc = "meta"
                   \/ /\ dl.pc = "meta"
                      /\ dest.created
                      /\ dest.chunks = [k \in 1..n |-> chunkDir[k - 1]]
                      /\ dest' = [dest EXCEPT !.meta = TRUE]]_vars
\* a rarest-first run that fetched the chunks in another order than 0, 1, 2
\* is done: the destination holds the three chunks in index order
C34_Witness ==
    /\ dl.pc = "done"
    /\ dl.rarest
    /\ dl.order # <<0, 1, 2>>
    /\ dl.downloaded = DlTotalChunks
    /\ dest.meta
    /\ dest.chunks = [k \in 1..DlTotalChunks |->
                        ChunkBytes(DlPath, k - 1,
                                   ChunkFile(DlPath, DlFileSize).Chunks[k].Size)]


(***************************************************************************)
(* ChunkFile: the number and the sizes of the chunks.                      *)
(***************************************************************************)
\* C35: ChunkFile on a file of size s > 0 produces ceil(s / ChunkSize)
\* chunks with indices 0, 1, ... in order, every chunk but the last of size
\* ChunkSize, the last of size s - ChunkSize * (total - 1), which lies in
\* 1..ChunkSize, the sizes summing to s; when s is a multiple of ChunkSize
\* there are s / ChunkSize chunks, all of size ChunkSize
C35_ChunkSizes ==
    [][\A t \in Trackers, f \in FileNames, s \in FileSizes, g \in GroupIds,
         u \in UserIds :
          (IsRPC(t, "upload_file", ClientUploadArgs(f, s, g, u)) /\ s > 0)
          => LET m == ChunkFile(f, s)
                 n == m.TotalChunks
             IN  /\ n * ChunkSize >= s
                 /\ (n - 1) * ChunkSize < s
                 /\ Len(m.Chunks) = n
                 /\ \A k \in 1..n :
                        /\ m.Chunks[k].Index = k - 1
                        /\ k < n => m.Chunks[k].Size = ChunkSize
                 /\ m.Chunks[n].Size = s - ChunkSize * (n - 1)
                 /\ m.Chunks[n].Size \in 1..ChunkSize
                 /\ SumSizes(m.Chunks) = s
                 /\ s % ChunkSize = 0
                    => /\ n = s \div ChunkSize
                       /\ \A k \in 1..n : m.Chunks[k].Size = ChunkSize]_vars
\* a file of twice the chunk size has been uploaded with the manifest
\* ChunkFile made of it: two chunks
C35_Witness ==
    /\ last.kind = "rpc"
    /\ last.cmd = "upload_file"
    /\ last.status = "ok"
    /\ \E g \in GroupIds, f \in FileNames :
        /\ FileKey(g, f) \in DOMAIN files[last.t]
        /\ files[last.t][FileKey(g, f)].FileSize = 2 * ChunkSize
        /\ files[last.t][FileKey(g, f)].TotalChunks = 2
        /\ files[last.t][FileKey(g, f)].Chunks
                = ChunkFile(f, 2 * ChunkSize).Chunks


(***************************************************************************)
(* The reader/writer lock and the serialization of the sync_pull reply.    *)
(***************************************************************************)
\* C36: the maps of a tracker are read and written only under the lock, the
\* serialization of the sync_pull snapshot included: while the reply to a
\* sync_pull is being serialized on a tracker, no handler of that tracker
\* changes its users, groups or files
C36_NoWriteDuringSerialization ==
    [][\A r \in Trackers :
          (/\ pull[r].stage = "wait"
           /\ pull'[r].stage = "wait"
           /\ pull'[r].peer = pull[r].peer)
          => Mem(pull[r].peer)' = Mem(pull[r].peer)]_vars


(***************************************************************************)
(* Presence: login, the address the peer daemon reports, logout, and the   *)
(* peers get_file_info returns, on two trackers that both hold the user    *)
(* alice, her group g1 and her file f1 (tracker 1 served the requests,     *)
(* tracker 2 received the gossip); bob registers during the behaviour and  *)
(* tracker 2 is the one that is killed and rejoins.                        *)
(***************************************************************************)
\* client main, case "logout": the session file is cleared, nothing is sent
\* to a tracker
Logout(u) ==
    /\ last' = [NoRequest EXCEPT !.kind = "logout", !.args = <<u>>]
    /\ UNCHANGED <<conf, users, groups, files, up, disk, savePending, pull, net,
                   missed, opsLeft, livesLeft, clientVars>>

PresenceInit ==
    /\ LET M1 == RunCmds(EmptyMem,
                    << <<"create_user", <<Uploader, "p1">>>>,
                       <<"create_group", <<"g1", Uploader>>>>,
                       <<"upload_file", ClientUploadArgs(DlPath, 5, "g1", Uploader)>> >>)
           M2 == RunCmds(EmptyMem,
                    << <<"sync_create_user", <<Uploader, "p1">>>>,
                       <<"sync_create_group", <<"g1", Uploader>>>>,
                       <<"sync_upload_file", ClientUploadArgs(DlPath, 5, "g1", Uploader)>> >>)
       IN  /\ users = [t \in Trackers |->
                        CASE t = 1 -> M1.users [] t = 2 -> M2.users [] OTHER -> EmptyMap]
           /\ groups = [t \in Trackers |->
                        CASE t = 1 -> M1.groups [] t = 2 -> M2.groups [] OTHER -> EmptyMap]
           /\ files = [t \in Trackers |->
                        CASE t = 1 -> M1.files [] t = 2 -> M2.files [] OTHER -> EmptyMap]
    /\ conf = 2
    /\ up = [t \in Trackers |-> t <= 2]
    /\ disk = [t \in Trackers |-> NoFile]
    /\ savePending = [t \in Trackers |-> 0]
    /\ pull = [t \in Trackers |-> PullIdle]
    /\ net = {}
    /\ last = NoRequest
    /\ missed = [t \in Trackers |-> {}]
    /\ opsLeft = PresenceOps
    /\ livesLeft = PresenceLives
    /\ dl = DlIdle
    /\ chunkDir = EmptyMap
    /\ dest = NoDest

NextPresence ==
    \/ \E t \in Trackers, p \in Passwords : CreateUser(t, Downloader, p)
    \/ \E t \in Trackers, u \in UserIds, p \in Passwords : Login(t, u, p, "")
    \/ \E t \in Trackers, u \in UserIds, a \in {UploaderAddr, DownloaderAddr} :
            UpdateAddress(t, u, a)
    \/ \E u \in UserIds : Logout(u)
    \/ \E t \in Trackers, u \in UserIds : GetFileInfo(t, u)
    \/ \E t \in Trackers : DeliverSync(t)
    \/ \E t \in Trackers : DialFail(t)
    \/ \E t \in Trackers : SaveState(t)
    \/ Kill(2)
    \/ Start(2)
    \/ PullDial(2)
    \/ PullMerge(2)
SpecPresence == PresenceInit /\ [][NextPresence]_vars


\* C38: logged_in is monotone on a running tracker: once login has set it,
\* no client command (logout included), sync message or rejoin merge sets it
\* back to false, so that the address of an owner who logged out is still
\* among the peers get_file_info returns
C38_LoggedInMonotone ==
    /\ [][\A t \in Trackers, u \in UserIds :
            (/\ up[t] /\ up'[t]
             /\ u \in DOMAIN users[t]
             /\ users[t][u].LoggedIn)
            => /\ u \in DOMAIN users'[t]
               /\ users'[t][u].LoggedIn]_vars
    /\ [](last.kind = "logout"
          => \A t \in Trackers :
                (/\ up[t]
                 /\ last.args[1] \in DOMAIN users[t]
                 /\ users[t][last.args[1]].LoggedIn
                 /\ DlKey \in DOMAIN files[t]
                 /\ last.args[1] \in files[t][DlKey].Owners)
                => users[t][last.args[1]].Addr
                     \in getFileInfo(Mem(t), <<"g1", DlPath, last.args[1]>>).data.peers)
\* alice logged in through tracker 1, her peer daemon reported its address,
\* and she has logged out: tracker 1 still holds her as logged in
C38_Witness ==
    /\ last.kind = "logout"
    /\ last.args = <<Uploader>>
    /\ up[1]
    /\ users[1][Uploader].LoggedIn
    /\ users[1][Uploader].Addr = UploaderAddr
    /\ UploaderAddr \in getFileInfo(Mem(1), <<"g1", DlPath, Uploader>>).data.peers

\* C39: every address among the peers get_file_info returns is a non-empty
\* address that update_address registered for an owner of the file, also
\* between the login of an owner and the update_address of its peer daemon
C39_PeersAreRegisteredAddresses ==
    (last.kind = "rpc" /\ last.cmd = "get_file_info" /\ last.status = "ok")
    => \A a \in last.data.peers :
          /\ a # ""
          /\ \E u \in files[last.t][DlKey].Owners :
                u \in DOMAIN users[last.t] /\ users[last.t][u].Addr = a

\* C40: when an owner of f has logged in and registered its address through
\* tracker T1 and all gossip is delivered, get_file_info for f answered by
\* another running tracker T2 lists that address
C40_PresenceReachesPeers ==
    \A t1 \in Trackers, t2 \in Trackers, u \in UserIds :
        (/\ t1 # t2
         /\ last.kind = "rpc"
         /\ last.cmd = "get_file_info"
         /\ last.t = t2
         /\ last.status = "ok"
         /\ net = {}
         /\ up[t1]
         /\ u \in DOMAIN users[t1]
         /\ users[t1][u].LoggedIn
         /\ users[t1][u].Addr # ""
         /\ DlKey \in DOMAIN files[t1]
         /\ u \in files[t1][DlKey].Owners)
        => users[t1][u].Addr \in last.data.peers

=============================================================================
